---- MODULE Spec2Model ----
(***************************************************************************)
(* Hero-vs-hero matrix generation (src/generate_cs_matrix.py) and the      *)
(* betting back-tests run over the published matrix                        *)
(* (src/run_wr_pct_strategy.py).                                           *)
(*                                                                         *)
(* The builder is a single-threaded batch run: main checks the hero map,   *)
(* process_matches folds the match file line by line into per-hero and     *)
(* per-pair counters, the build_* functions turn the counters into the     *)
(* published arrays and write_output publishes them.                       *)
(*                                                                         *)
(* Python values are modelled as follows.                                  *)
(*   - an optional number (hero_id, duration_minutes, a metric) is a       *)
(*     record [kind, v]: kind "num" carries the number v, kind "none" is   *)
(*     None, kind "nan" is a value float() yields as NaN;                  *)
(*   - an optional team name is a string, None being the string NoName;    *)
(*   - a float is the exact rational it stands for, kept as <<num, den>>   *)
(*     with den > 0; a formatted number f"{x:.2f}" is the integer          *)
(*     round(x * 10^2) (the digits of the string without the point).       *)
(***************************************************************************)
EXTENDS Integers, Sequences, FiniteSets, TLC

VARIABLES
    pc,               \* position of main
    hero_map,         \* hero id -> matrix index (hero_map.json)
    hero_matches, hero_wins,
    duration_sum, duration_count,
    metric_sums, metric_counts,
    pair_matches, pair_wins,
    total_matches, skipped_matches,
    match,            \* the record parsed from the current line; NoMatch between lines
    file_left,        \* what is left of the matches file (lines + player entries)
    min_sample,       \* args.min_sample
    heroes_wr, additional_arrays, win_rates,
    error,            \* the exception main died with, if any
    published         \* the files written so far, one per run of the builder

\* State of run_wr_pct_strategy.py.
VARIABLES
    spc,              \* position of its main
    cs_data,          \* the matrix file as load_cs_data returns it
    rows_read,        \* the rows of the matches CSV read so far
    dataset,          \* the list build_match_dataset is filling / has returned
    sim,              \* the arguments and locals of the running call of simulate
    results,          \* the rows that call has appended
    trade_map,        \* (cap, threshold) -> the trades of the martingale analysis
    mart,             \* the locals of main's martingale part
    martingale_rows   \* the rows of the martingale report

counters == <<hero_matches, hero_wins, duration_sum, duration_count,
              metric_sums, metric_counts, pair_matches, pair_wins>>
built == <<heroes_wr, additional_arrays, win_rates>>
matrix_vars == <<pc, hero_map, counters, total_matches, skipped_matches, match,
                 file_left, min_sample, built, error, published>>
simulate_vars == <<sim, results>>
martingale_vars == <<trade_map, mart, martingale_rows>>
strategy_vars == <<spc, cs_data, rows_read, dataset, simulate_vars, martingale_vars>>
vars == <<matrix_vars, strategy_vars>>

----------------------------------------------------------------------------
(* Bounds of the model *)

\* Size of the matches file: one unit per line plus one per player entry.
MaxFileSize == 7
\* Number of times the builder is run over the same counters.
MaxRuns == 2

----------------------------------------------------------------------------
(* Values *)

NoName == "<None>"
NoneNum == [kind |-> "none", v |-> 0]
NaN == [kind |-> "nan", v |-> 0]
Num(n) == [kind |-> "num", v |-> n]
IsNone(x) == x.kind = "none"

\* Python truthiness of an optional string: None and "" are falsy.
Falsy(s) == s \in {NoName, ""}

\* The template's hero ordering and backgrounds (cs_original.json).
heroes == <<"Axe", "Bane">>
heroes_bg == <<"axe.jpg", "bane.jpg">>
NumHeroes == Len(heroes)
HeroIdx == 0 .. (NumHeroes - 1)

MetricKeys == <<"gpm", "xpm", "hero_damage", "tower_damage", "damage_taken",
                "teamfight_participation">>
MetricJsKey(k) == CASE k = "gpm" -> "heroes_gpm"
                    [] k = "xpm" -> "heroes_xpm"
                    [] k = "hero_damage" -> "heroes_hero_damage"
                    [] k = "tower_damage" -> "heroes_tower_damage"
                    [] k = "damage_taken" -> "heroes_damage_taken"
                    [] k = "teamfight_participation" -> "heroes_teamfight_participation"
METRIC_FIELDS == {MetricKeys[i] : i \in 1 .. Len(MetricKeys)}

safe_float(value) ==
    IF value.kind = "num" THEN value ELSE NoneNum

----------------------------------------------------------------------------
(* Inputs *)

\* Hero ids 1..NumHeroes are mapped in order; id NumHeroes+1 is spare.
SpareId == NumHeroes + 1
MapOk == [id \in 1 .. NumHeroes |-> id - 1]
MapDup == [id \in 1 .. SpareId |-> IF id = SpareId THEN 0 ELSE id - 1]
MapMissing == [id \in 1 .. (NumHeroes - 1) |-> id - 1]
MapExtra == [id \in 1 .. SpareId |-> id - 1]
MapNegative == [id \in 1 .. SpareId |-> IF id = SpareId THEN 0 - 1 ELSE id - 1]
MapShifted == [id \in 1 .. NumHeroes |-> id]
HeroMaps == {MapOk, MapDup, MapMissing, MapExtra, MapNegative, MapShifted}

ProfileSparse == [k \in METRIC_FIELDS |->
                    IF k = "gpm" THEN Num(3) ELSE IF k = "xpm" THEN NaN ELSE NoneNum]
ProfileFull == [k \in METRIC_FIELDS |-> Num(1)]

Player(id, team, metrics) == [hero_id |-> id, player_team |-> team, metrics |-> metrics]

\* The kinds of player entry a record is made of, in the order rosters list them.
PlayerKinds == <<
    Player(Num(1), "A", ProfileSparse),
    Player(Num(1), "B", ProfileFull),
    Player(NoneNum, "A", ProfileFull),
    Player(Num(2), "A", ProfileFull),
    Player(Num(2), "B", ProfileSparse),
    Player(Num(SpareId), "B", ProfileSparse),
    Player(Num(2), "C", ProfileSparse) >>

RECURSIVE RostersFrom(_, _)
\* Rosters of k entries whose kinds are numbered from `lo` up, in non-decreasing
\* order (an entry may repeat: a hero listed twice).
RostersFrom(k, lo) ==
    IF k = 0 THEN {<< >>}
    ELSE UNION {{<<PlayerKinds[i]>> \o r : r \in RostersFrom(k - 1, i)}
                    : i \in lo .. Len(PlayerKinds)}

Rosters == [k \in 0 .. (MaxFileSize - 1) |-> RostersFrom(k, 1)]

\* The header of a record: radiant team, dire team, declared winner, duration.
\* Two well-formed headers (either side winning, the duration usable or not),
\* then a missing radiant team, an empty dire team, a winner that is neither
\* team and a missing winner.
Headers == { <<"A", "B", "A", Num(2)>>,
             <<"A", "B", "B", NaN>>,
             <<NoName, "B", "B", Num(2)>>,
             <<"A", "", "A", Num(2)>>,
             <<"A", "B", "C", Num(2)>>,
             <<"A", "B", NoName, NoneNum>> }

NoMatch == [radiant_team |-> NoName, dire_team |-> NoName, winner |-> NoName,
            duration_minutes |-> NoneNum, players |-> << >>]

\* --min-sample: its default, and the values the runs are given.
DefaultMinSample == 5
MinSamples == {0 - 1, 0, 2}
Dates == {"2025-01-01", "2025-01-02"}

----------------------------------------------------------------------------
(* process_matches *)

ZeroRow == [h \in HeroIdx |-> 0]
ZeroMatrix == [i \in HeroIdx |-> ZeroRow]

\* hero_map.get(int(hero_id))
MapGet(m, id) == IF id \in DOMAIN m THEN Num(m[id]) ELSE NoneNum

\* PlayerSide with the final `else: continue` lost: a player of neither team
\* falls through to the dire side.
PlayerSideElseDire(player, radiant_team, dire_team, hmap) ==
    IF IsNone(player.hero_id) THEN "drop"
    ELSE IF IsNone(MapGet(hmap, player.hero_id.v)) THEN "drop"
    ELSE IF player.player_team = radiant_team THEN "radiant"
    ELSE "dire"

\* Lines 182-198: the side a player is attributed to, or "drop".
PlayerSide(player, radiant_team, dire_team, hmap) ==
    IF IsNone(player.hero_id) THEN "drop"
    ELSE IF IsNone(MapGet(hmap, player.hero_id.v)) THEN "drop"
    ELSE IF player.player_team = radiant_team THEN "radiant"
    ELSE IF player.player_team = dire_team THEN "dire"
    ELSE "drop"

RECURSIVE SideList(_, _, _, _, _)
\* sides[side]: the (idx, player) pairs attributed to `side`, in roster order.
SideList(players, side, radiant_team, dire_team, hmap) ==
    IF players = << >> THEN << >>
    ELSE LET p == Head(players)
             rest == SideList(Tail(players), side, radiant_team, dire_team, hmap)
         IN IF PlayerSide(p, radiant_team, dire_team, hmap) = side
            THEN <<[idx |-> hmap[p.hero_id.v], player |-> p]>> \o rest
            ELSE rest

\* Lines 207-220: one attributed player folded into the hero accumulators.
HeroStep(st, hero_idx, player, is_win, duration) ==
    [ hero_matches |-> [st.hero_matches EXCEPT ![hero_idx] = @ + 1],
      hero_wins |-> IF is_win THEN [st.hero_wins EXCEPT ![hero_idx] = @ + 1]
                    ELSE st.hero_wins,
      duration_sum |-> IF IsNone(duration) THEN st.duration_sum
                       ELSE [st.duration_sum EXCEPT ![hero_idx] = @ + duration.v],
      duration_count |-> IF IsNone(duration) THEN st.duration_count
                         ELSE [st.duration_count EXCEPT ![hero_idx] = @ + 1],
      metric_sums |-> [k \in METRIC_FIELDS |->
                         LET value == safe_float(player.metrics[k])
                         IN IF IsNone(value) THEN st.metric_sums[k]
                            ELSE [st.metric_sums[k] EXCEPT ![hero_idx] = @ + value.v]],
      metric_counts |-> [k \in METRIC_FIELDS |->
                           LET value == safe_float(player.metrics[k])
                           IN IF IsNone(value) THEN st.metric_counts[k]
                              ELSE [st.metric_counts[k] EXCEPT ![hero_idx] = @ + 1]] ]

RECURSIVE HeroLoop(_, _, _, _)
\* Lines 206-220: for hero_idx, player in hero_list.
HeroLoop(st, hero_list, is_win, duration) ==
    IF hero_list = << >> THEN st
    ELSE HeroLoop(HeroStep(st, Head(hero_list).idx, Head(hero_list).player,
                           is_win, duration),
                  Tail(hero_list), is_win, duration)

\* PairStep with the mirrored count moved under `if winner_side == "dire"`.
PairStepNoMirror(pr, rad_idx, dire_idx, winner_side) ==
    LET pm1 == [pr.pair_matches EXCEPT ![rad_idx][dire_idx] = @ + 1]
        pw1 == IF winner_side = "radiant"
               THEN [pr.pair_wins EXCEPT ![rad_idx][dire_idx] = @ + 1]
               ELSE pr.pair_wins
    IN IF winner_side = "dire"
       THEN [pair_matches |-> [pm1 EXCEPT ![dire_idx][rad_idx] = @ + 1],
             pair_wins |-> [pw1 EXCEPT ![dire_idx][rad_idx] = @ + 1]]
       ELSE [pair_matches |-> pm1, pair_wins |-> pw1]

\* PairStep with the radiant win counted whoever won.
PairStepRadiantAlwaysWins(pr, rad_idx, dire_idx, winner_side) ==
    LET pm1 == [pr.pair_matches EXCEPT ![rad_idx][dire_idx] = @ + 1]
        pw1 == [pr.pair_wins EXCEPT ![rad_idx][dire_idx] = @ + 1]
        pm2 == [pm1 EXCEPT ![dire_idx][rad_idx] = @ + 1]
        pw2 == IF winner_side = "dire"
               THEN [pw1 EXCEPT ![dire_idx][rad_idx] = @ + 1]
               ELSE pw1
    IN [pair_matches |-> pm2, pair_wins |-> pw2]

\* Lines 224-230: one (radiant hero, dire hero) combination.
PairStep(pr, rad_idx, dire_idx, winner_side) ==
    LET pm1 == [pr.pair_matches EXCEPT ![rad_idx][dire_idx] = @ + 1]
        pw1 == IF winner_side = "radiant"
               THEN [pr.pair_wins EXCEPT ![rad_idx][dire_idx] = @ + 1]
               ELSE pr.pair_wins
        pm2 == [pm1 EXCEPT ![dire_idx][rad_idx] = @ + 1]
        pw2 == IF winner_side = "dire"
               THEN [pw1 EXCEPT ![dire_idx][rad_idx] = @ + 1]
               ELSE pw1
    IN [pair_matches |-> pm2, pair_wins |-> pw2]

\* DireLoop leaving the loop after the first dire hero.
DireLoopFirstOnly(pr, rad_idx, dire_list, winner_side) ==
    IF dire_list = << >> THEN pr
    ELSE PairStep(pr, rad_idx, Head(dire_list).idx, winner_side)

RECURSIVE DireLoop(_, _, _, _)
\* Line 223: for dire_idx, _ in sides["dire"].
DireLoop(pr, rad_idx, dire_list, winner_side) ==
    IF dire_list = << >> THEN pr
    ELSE DireLoop(PairStep(pr, rad_idx, Head(dire_list).idx, winner_side),
                  rad_idx, Tail(dire_list), winner_side)

RECURSIVE PairLoop(_, _, _, _)
\* Line 222: for rad_idx, _ in sides["radiant"].
PairLoop(pr, rad_list, dire_list, winner_side) ==
    IF rad_list = << >> THEN pr
    ELSE PairLoop(DireLoop(pr, Head(rad_list).idx, dire_list, winner_side),
                  Tail(rad_list), dire_list, winner_side)

\* Line 167: the record is rejected before any player is looked at.
RejectedEarly(m) ==
    \/ Falsy(m.radiant_team)
    \/ Falsy(m.dire_team)
    \/ Falsy(m.winner)
    \/ Len(m.players) < 2

\* WinnerSide with the final `else` taken as the dire side.
WinnerSideElseDire(m) ==
    IF m.winner = m.radiant_team THEN "radiant" ELSE "dire"

\* Lines 171-177.
WinnerSide(m) ==
    IF m.winner = m.radiant_team THEN "radiant"
    ELSE IF m.winner = m.dire_team THEN "dire"
    ELSE "none"

----------------------------------------------------------------------------
(* Actions *)

\* The builder before its first step, the hero map apart.
MatrixStart ==
    /\ pc = "start"
    /\ hero_matches = ZeroRow /\ hero_wins = ZeroRow
    /\ duration_sum = ZeroRow /\ duration_count = ZeroRow
    /\ metric_sums = [k \in METRIC_FIELDS |-> ZeroRow]
    /\ metric_counts = [k \in METRIC_FIELDS |-> ZeroRow]
    /\ pair_matches = ZeroMatrix /\ pair_wins = ZeroMatrix
    /\ total_matches = 0 /\ skipped_matches = 0
    /\ match = NoMatch
    /\ file_left = MaxFileSize
    /\ min_sample = DefaultMinSample
    /\ heroes_wr = << >> /\ additional_arrays = << >> /\ win_rates = << >>
    /\ error = <<"none", {}>>
    /\ published = << >>

\* run_wr_pct_strategy.py not started, part by part.
ProjectIdle ==
    /\ cs_data = [heroes |-> << >>, heroes_wr |-> << >>, win_rates |-> << >>]
    /\ rows_read = << >>
SimulateIdle == sim = [pct |-> 0, odds_cap |-> 0] /\ results = << >>
MartingaleIdle == trade_map = << >> /\ mart = [m |-> 0] /\ martingale_rows = << >>
StrategyIdle ==
    /\ spc = "idle"
    /\ dataset = << >>
    /\ ProjectIdle
    /\ SimulateIdle
    /\ MartingaleIdle

Init ==
    /\ hero_map \in HeroMaps
    /\ MatrixStart
    /\ StrategyIdle

\* MapValues reading the keys of the map instead of its values.
MapKeys(m) == DOMAIN m

\* The values the hero map takes.
MapValues(m) == {m[id] : id \in DOMAIN m}

\* main, lines 351-357: the hero map must take exactly the values 0..N-1.
CheckHeroMap ==
    /\ pc = "start"
    /\ IF MapValues(hero_map) # HeroIdx
       THEN /\ pc' = "failed"
            /\ error' = <<"ValueError", HeroIdx \ MapValues(hero_map)>>
       ELSE /\ pc' = "ingest"
            /\ UNCHANGED error
    /\ UNCHANGED <<hero_map, counters, total_matches, skipped_matches, match,
                   file_left, min_sample, built, published,
                   strategy_vars>>

\* process_matches, lines 155-158: a blank line is passed over.
ReadBlankLine ==
    /\ pc = "ingest"
    /\ file_left >= 1
    /\ file_left' = file_left - 1
    /\ UNCHANGED <<pc, hero_map, counters, total_matches, skipped_matches, match,
                   min_sample, built, error, published,
                   strategy_vars>>

\* process_matches, lines 155-160: the next line is parsed into `match`.
ReadLine ==
    /\ pc = "ingest"
    /\ file_left >= 1
    /\ \E k \in 0 .. (file_left - 1) :
       \E players \in Rosters[k] :
       \E header \in Headers :
          /\ match' = [radiant_team |-> header[1], dire_team |-> header[2],
                       winner |-> header[3], duration_minutes |-> header[4],
                       players |-> players]
          /\ file_left' = file_left - 1 - k
    /\ total_matches' = total_matches + 1
    /\ pc' = "parsed"
    /\ UNCHANGED <<hero_map, counters, skipped_matches, min_sample, built, error,
                   published,
                   strategy_vars>>

\* process_matches, lines 162-230: the parsed record is skipped or folded in.
ProcessMatch ==
    /\ pc = "parsed"
    /\ pc' = "ingest"
    /\ LET radiant == SideList(match.players, "radiant", match.radiant_team,
                               match.dire_team, hero_map)
           dire == SideList(match.players, "dire", match.radiant_team,
                            match.dire_team, hero_map)
           winner_side == WinnerSide(match)
           duration == safe_float(match.duration_minutes)
           st0 == [hero_matches |-> hero_matches, hero_wins |-> hero_wins,
                   duration_sum |-> duration_sum, duration_count |-> duration_count,
                   metric_sums |-> metric_sums, metric_counts |-> metric_counts]
           st1 == HeroLoop(st0, radiant, winner_side = "radiant", duration)
           st2 == HeroLoop(st1, dire, winner_side = "dire", duration)
           pr == PairLoop([pair_matches |-> pair_matches, pair_wins |-> pair_wins],
                          radiant, dire, winner_side)
       IN IF \/ RejectedEarly(match)
             \/ winner_side = "none"
             \/ radiant = << >>
             \/ dire = << >>
          THEN /\ skipped_matches' = skipped_matches + 1
               /\ UNCHANGED counters
          ELSE /\ hero_matches' = st2.hero_matches
               /\ hero_wins' = st2.hero_wins
               /\ duration_sum' = st2.duration_sum
               /\ duration_count' = st2.duration_count
               /\ metric_sums' = st2.metric_sums
               /\ metric_counts' = st2.metric_counts
               /\ pair_matches' = pr.pair_matches
               /\ pair_wins' = pr.pair_wins
               /\ UNCHANGED skipped_matches
    /\ match' = NoMatch
    /\ UNCHANGED <<hero_map, total_matches, file_left, min_sample, built,
                   error, published,
                   strategy_vars>>

----------------------------------------------------------------------------
(* Arithmetic: floats as exact rationals <<num, den>>, den > 0.  A division  *)
(* by zero (Python's ZeroDivisionError) is the pair ZeroDiv, whose den is 0. *)

ZeroDiv == <<0, 0>>
Raises(x) == x[2] = 0
Rat(n) == <<n, 1>>
\* a / b on integers
Div(a, b) == IF b = 0 THEN ZeroDiv ELSE <<a, b>>
RatMul(x, n) == IF Raises(x) THEN ZeroDiv ELSE <<x[1] * n, x[2]>>
RatAdd(x, y) == IF Raises(x) \/ Raises(y) THEN ZeroDiv
                ELSE <<x[1] * y[2] + y[1] * x[2], x[2] * y[2]>>
RatSub(x, y) == IF Raises(x) \/ Raises(y) THEN ZeroDiv
                ELSE <<x[1] * y[2] - y[1] * x[2], x[2] * y[2]>>
RatEq(x, y) == ~Raises(x) /\ ~Raises(y) /\ x[1] * y[2] = y[1] * x[2]

RECURSIVE Pow10(_)
Pow10(d) == IF d = 0 THEN 1 ELSE 10 * Pow10(d - 1)

\* num / den rounded to the nearest integer, ties to even (den > 0).
RoundHalfEven(num, den) ==
    LET a == IF num < 0 THEN 0 - num ELSE num
        q == a \div den
        r == a % den
        m == IF 2 * r > den \/ (2 * r = den /\ q % 2 = 1) THEN q + 1 ELSE q
    IN IF num < 0 THEN 0 - m ELSE m

\* f"{x:.<decimals>f}" and round(x, decimals): the digits of x scaled by
\* 10^decimals.  The first is published as a string, the second as a number.
Format(x, decimals) ==
    [type |-> "str", decimals |-> decimals,
     digits |-> RoundHalfEven(x[1] * Pow10(decimals), x[2])]
Round(x, decimals) ==
    [type |-> "float", decimals |-> decimals,
     digits |-> RoundHalfEven(x[1] * Pow10(decimals), x[2])]

----------------------------------------------------------------------------
(* The build_* functions.  Each returns its value, or ZeroDiv in place of   *)
(* an element whose computation raises.                                     *)

\* Lines 245-253 (decimals = 2) and 256-263.
HeroAverage(total, count) ==
    IF count # 0 THEN Div(total, count) ELSE Rat(0)

build_hero_metric_array(sums, counts) ==
    [h \in HeroIdx |-> HeroAverage(sums[h], counts[h])]

build_hero_duration_array(dsum, dcount) ==
    [h \in HeroIdx |-> HeroAverage(dsum[h], dcount[h])]

\* Lines 269-272: pct of one hero.
HeroWinPct(wins, matches) ==
    IF matches # 0 THEN RatMul(Div(wins, matches), 100) ELSE Rat(0)

build_heroes_wr(hm, hw) ==
    [h \in HeroIdx |-> HeroWinPct(hw[h], hm[h])]

\* WinRate as a fraction, the factor 100 lost.
WinRateFraction(wins, matches) == Div(wins, matches)

\* Line 297: win_rate = wins / matches * 100.0
WinRate(wins, matches) == RatMul(Div(wins, matches), 100)
\* Line 298: advantage = win_rate - 50.0
Advantage(win_rate) == RatSub(win_rate, Rat(50))

NoCell == [present |-> FALSE, raised |-> FALSE, advantage |-> Format(Rat(0), 4),
           win_rate |-> Format(Rat(0), 4), sample |-> 0]
RaisedCell == [NoCell EXCEPT !.raised = TRUE]

\* Lines 287-305: the cell of row i, column j.
WinRateCell(pm, pw, ms, i, j) ==
    IF i = j THEN NoCell
    ELSE IF pm[i][j] < ms THEN NoCell
    ELSE LET win_rate == WinRate(pw[i][j], pm[i][j])
             advantage == Advantage(win_rate)
         IN IF Raises(win_rate) THEN RaisedCell
            ELSE [present |-> TRUE, raised |-> FALSE,
                  advantage |-> Format(advantage, 4),
                  win_rate |-> Format(win_rate, 4),
                  sample |-> pm[i][j]]

build_win_rates(pm, pw, ms) ==
    [i \in HeroIdx |-> [j \in HeroIdx |-> WinRateCell(pm, pw, ms, i, j)]]

\* Whether a function of heroes holds an element whose computation raised.
AnyRaises(arr) == \E h \in HeroIdx : Raises(arr[h])
MatrixRaises(m) == \E i, j \in HeroIdx : m[i][j].raised

FormatAll(arr, decimals) == [h \in HeroIdx |-> Format(arr[h], decimals)]
RoundAll(arr, decimals) == [h \in HeroIdx |-> Round(arr[h], decimals)]

\* Lines 372-380: the metric arrays in METRIC_FIELDS order, then the durations.
AdditionalArrays(msums, mcounts, dsum, dcount) ==
    [n \in 1 .. (Len(MetricKeys) + 1) |->
        IF n <= Len(MetricKeys)
        THEN [key |-> MetricJsKey(MetricKeys[n]),
              values |-> build_hero_metric_array(msums[MetricKeys[n]],
                                                 mcounts[MetricKeys[n]])]
        ELSE [key |-> "heroes_match_duration",
              values |-> build_hero_duration_array(dsum, dcount)]]

\* write_output stamping the win_rates line with the date as well.
write_output_stamped(hs, bg, wr, arrays, rates, update_time) ==
    << [key |-> "heroes", value |-> hs],
       [key |-> "heroes_bg", value |-> bg],
       [key |-> "heroes_wr", value |-> wr] >>
    \o [n \in 1 .. Len(arrays) |-> [key |-> arrays[n].key, value |-> arrays[n].values]]
    \o << [key |-> "win_rates", value |-> <<rates, update_time>>],
          [key |-> "update_time", value |-> update_time] >>

\* Lines 319-330: the lines of the published file.
write_output(hs, bg, wr, arrays, rates, update_time) ==
    << [key |-> "heroes", value |-> hs],
       [key |-> "heroes_bg", value |-> bg],
       [key |-> "heroes_wr", value |-> wr] >>
    \o [n \in 1 .. Len(arrays) |-> [key |-> arrays[n].key, value |-> arrays[n].values]]
    \o << [key |-> "win_rates", value |-> rates],
          [key |-> "update_time", value |-> update_time] >>

----------------------------------------------------------------------------
(* Actions of main after ingestion *)

\* process_matches, lines 232-242: end of file; the counters are returned and
\* the locals of process_matches are gone.  args.min_sample is read from here on.
ReturnCounters ==
    /\ pc = "ingest"
    /\ pc' = "counted"
    /\ min_sample' \in MinSamples
    /\ total_matches' = 0 /\ skipped_matches' = 0 /\ file_left' = 0
    /\ UNCHANGED <<hero_map, counters, match, built, error, published,
                   strategy_vars>>

\* main, lines 370-382: the arrays are built from the counters.  A second run
\* of the builder over the same counters starts here again.
BuildMatrix ==
    /\ pc \in {"counted", "published"}
    /\ Len(published) < MaxRuns
    /\ LET wr == build_heroes_wr(hero_matches, hero_wins)
           arrays == AdditionalArrays(metric_sums, metric_counts,
                                      duration_sum, duration_count)
           rates == build_win_rates(pair_matches, pair_wins, min_sample)
       IN IF \/ AnyRaises(wr)
             \/ \E n \in 1 .. Len(arrays) : AnyRaises(arrays[n].values)
             \/ MatrixRaises(rates)
          THEN /\ pc' = "failed"
               /\ error' = <<"ZeroDivisionError", {}>>
               /\ UNCHANGED built
          ELSE /\ pc' = "built"
               /\ heroes_wr' = FormatAll(wr, 2)
               /\ additional_arrays' =
                    [n \in 1 .. Len(arrays) |->
                        [key |-> arrays[n].key, values |-> RoundAll(arrays[n].values, 2)]]
               /\ win_rates' = rates
               /\ UNCHANGED error
    /\ UNCHANGED <<hero_map, counters, total_matches, skipped_matches, match,
                   file_left, min_sample, published,
                   strategy_vars>>

\* main, lines 384-394: the file is stamped with today's date and written.
WriteOutput ==
    /\ pc = "built"
    /\ \E today \in Dates :
          published' = Append(published,
                              write_output(heroes, heroes_bg, heroes_wr,
                                           additional_arrays, win_rates, today))
    /\ pc' = "published"
    /\ UNCHANGED <<hero_map, counters, total_matches, skipped_matches, match,
                   file_left, min_sample, built, error,
                   strategy_vars>>

Next ==
    \/ CheckHeroMap
    \/ ReadBlankLine
    \/ ReadLine
    \/ ProcessMatch
    \/ ReturnCounters
    \/ BuildMatrix
    \/ WriteOutput

Spec == Init /\ [][Next]_vars

----------------------------------------------------------------------------
(* What the properties below say about a parsed record, stated from the     *)
(* record itself and not through the operators of process_matches.          *)

\* Positions of the roster whose hero id is mapped and whose team is the
\* radiant team, and likewise the dire team.
RadiantAt ==
    {k \in 1 .. Len(match.players) :
        /\ match.players[k].hero_id.kind = "num"
        /\ match.players[k].hero_id.v \in DOMAIN hero_map
        /\ match.players[k].player_team = match.radiant_team}
DireAt ==
    {k \in 1 .. Len(match.players) :
        /\ match.players[k].hero_id.kind = "num"
        /\ match.players[k].hero_id.v \in DOMAIN hero_map
        /\ match.players[k].player_team = match.dire_team
        /\ match.players[k].player_team # match.radiant_team}
IdxAt(k) == hero_map[match.players[k].hero_id.v]

\* The reasons for which a record is skipped.
SkipReason ==
    \/ match.radiant_team \in {NoName, ""}
    \/ match.dire_team \in {NoName, ""}
    \/ match.winner \notin {match.radiant_team, match.dire_team}
    \/ Len(match.players) < 2
    \/ RadiantAt = {}
    \/ DireAt = {}

WinnerAt == IF match.winner = match.radiant_team THEN RadiantAt ELSE DireAt

\* Number of (radiant entry, dire entry) combinations with radiant hero i and
\* dire hero j.
Combos(i, j) ==
    Cardinality({c \in RadiantAt \X DireAt : IdxAt(c[1]) = i /\ IdxAt(c[2]) = j})

RECURSIVE SumOver(_, _)
SumOver(f, S) ==
    IF S = {} THEN 0
    ELSE LET x == CHOOSE y \in S : TRUE IN f[x] + SumOver(f, S \ {x})
MatrixSum(m) == SumOver([i \in HeroIdx |-> SumOver(m[i], HeroIdx)], HeroIdx)

----------------------------------------------------------------------------
(* Properties *)

\* C1: at every point of ingestion, after every record whether accepted or
\* skipped, pair_matches[i][j] = pair_matches[j][i] for all heroes i # j.
C1_PairMatchesSymmetric ==
    \A i, j \in HeroIdx : i # j => pair_matches[i][j] = pair_matches[j][i]

\* Both orientations of the pair (0, 1) were observed, around a skipped record.
C1_Witness ==
    /\ pc = "ingest"
    /\ skipped_matches >= 1
    /\ pair_matches[0][1] >= 2
    /\ pair_wins[0][1] >= 1 /\ pair_wins[1][0] >= 1

\* C2: after any sequence of records, pair_wins[i][j] + pair_wins[j][i] =
\* pair_matches[i][j] for all heroes i # j, also when a hero is listed twice
\* or on both sides of a record.
C2_OneSideWins ==
    \A i, j \in HeroIdx :
        i # j => pair_wins[i][j] + pair_wins[j][i] = pair_matches[i][j]

\* Hero 0 met itself (it was listed on both sides of a record) and both heroes
\* have won encounters against each other.
C2_Witness ==
    /\ pair_matches[0][0] > 0
    /\ pair_wins[0][1] > 0 /\ pair_wins[1][0] > 0

\* C3: for i # j with pair_matches[i][j] > 0, win_rate(i,j) + win_rate(j,i) is
\* exactly 100, and whenever both cells (i,j) and (j,i) are published the exact
\* advantages are opposite: advantage(i,j) = -advantage(j,i).
C3_Complementary ==
    /\ \A i, j \in HeroIdx :
          (i # j /\ pair_matches[i][j] > 0) =>
             RatEq(RatAdd(WinRate(pair_wins[i][j], pair_matches[i][j]),
                          WinRate(pair_wins[j][i], pair_matches[j][i])),
                   Rat(100))
    /\ pc \in {"built", "published"} =>
          \A i, j \in HeroIdx :
             (win_rates[i][j].present /\ win_rates[j][i].present) =>
                RatEq(Advantage(WinRate(pair_wins[i][j], pair_matches[i][j])),
                      RatSub(Rat(0),
                             Advantage(WinRate(pair_wins[j][i], pair_matches[j][i]))))

\* Hero 0 won 2 of its 3 encounters with hero 1 and both cells are published.
C3_Witness ==
    /\ pc = "built"
    /\ pair_matches[0][1] = 3 /\ pair_wins[0][1] = 2 /\ pair_wins[1][0] = 1
    /\ win_rates[0][1].present /\ win_rates[1][0].present

\* C4: for every counter matrix and every min_sample, build_win_rates returns
\* a matrix whose cell (i,j) is absent iff i = j or pair_matches[i][j] <
\* min_sample, every other cell being present with sample_size =
\* pair_matches[i][j], win_rate = 100*wins/matches and advantage = win_rate - 50.
C4_Gating ==
    pc \in {"counted", "built", "published"} =>
       LET m == build_win_rates(pair_matches, pair_wins, min_sample)
       IN \A i, j \in HeroIdx :
             IF i = j \/ pair_matches[i][j] < min_sample
             THEN ~m[i][j].present /\ ~m[i][j].raised
             ELSE /\ m[i][j].present
                  /\ m[i][j].sample = pair_matches[i][j]
                  /\ m[i][j].win_rate =
                        Format(<<100 * pair_wins[i][j], pair_matches[i][j]>>, 4)
                  /\ m[i][j].advantage =
                        Format(<<100 * pair_wins[i][j] - 50 * pair_matches[i][j],
                                 pair_matches[i][j]>>, 4)

\* C5: a record skipped for any of the reasons (a team name missing, a winner
\* that is neither team, fewer than two players, a side without attributed
\* players) raises nothing, adds exactly one to the skip count and leaves
\* every hero, duration, metric and pair counter as it was.
C5_SkipFrame ==
    [][(pc = "parsed" /\ SkipReason) =>
          /\ pc' = "ingest"
          /\ error' = error
          /\ skipped_matches' = skipped_matches + 1
          /\ UNCHANGED counters]_vars

\* A record with both teams, a valid winner and two players, all attributed to
\* one side, is about to be skipped; an earlier record was skipped and another
\* was counted.
C5_Witness ==
    /\ pc = "parsed"
    /\ ~Falsy(match.radiant_team) /\ ~Falsy(match.dire_team)
    /\ match.winner = match.dire_team
    /\ Len(match.players) >= 2
    /\ RadiantAt # {} /\ DireAt = {}
    /\ skipped_matches >= 1
    /\ hero_matches[0] >= 1 /\ pair_matches[0][1] >= 1

\* C6: for an accepted record, every player with a mapped hero id and the
\* radiant or dire team name adds exactly 1 to its hero's match count, and 1 to
\* its win count exactly when its side won; every other player changes no
\* counter and does not make the record skipped.  Hence hero_wins[h] <=
\* hero_matches[h] always.
C6_HeroCounts ==
    /\ [][(pc = "parsed" /\ ~SkipReason) =>
             /\ skipped_matches' = skipped_matches
             /\ \A h \in HeroIdx :
                   /\ hero_matches'[h] = hero_matches[h] +
                         Cardinality({k \in RadiantAt \cup DireAt : IdxAt(k) = h})
                   /\ hero_wins'[h] = hero_wins[h] +
                         Cardinality({k \in WinnerAt : IdxAt(k) = h})]_vars
    /\ [](\A h \in HeroIdx : hero_wins[h] <= hero_matches[h])

\* The only record read had three player entries, was not skipped, and counted
\* two of them: the third was dropped on its own.
C6_Witness ==
    /\ pc = "ingest"
    /\ total_matches = 1 /\ skipped_matches = 0
    /\ file_left = MaxFileSize - 4
    /\ hero_matches[0] = 1 /\ hero_matches[1] = 1
    /\ hero_wins[0] + hero_wins[1] = 1

\* C7: an accepted record with R attributed radiant and D attributed dire
\* players adds one observation per (radiant, dire) combination: each
\* combination (r, d) adds 1 to pair_matches[r][d] and to pair_matches[d][r]
\* and 1 to the winner's cell among pair_wins[r][d], pair_wins[d][r]; R*D
\* observations in each direction, and no other cell changes.
C7_PairObservations ==
    [][(pc = "parsed" /\ ~SkipReason) =>
          /\ \A i, j \in HeroIdx :
                /\ pair_matches'[i][j] = pair_matches[i][j] + Combos(i, j) + Combos(j, i)
                /\ pair_wins'[i][j] = pair_wins[i][j] +
                      (IF match.winner = match.radiant_team
                       THEN Combos(i, j) ELSE Combos(j, i))
          /\ MatrixSum(pair_matches') =
                MatrixSum(pair_matches) + 2 * Cardinality(RadiantAt) * Cardinality(DireAt)
          /\ MatrixSum(pair_wins') =
                MatrixSum(pair_wins) + Cardinality(RadiantAt) * Cardinality(DireAt)]_vars

\* The only record read was accepted with two heroes on one side and one on
\* the other: 2 observations in each direction, one of them on the diagonal.
C7_Witness ==
    /\ pc = "ingest"
    /\ total_matches = 1 /\ skipped_matches = 0
    /\ MatrixSum(pair_matches) = 4 /\ MatrixSum(pair_wins) = 2
    /\ pair_matches[0][1] = 1 /\ pair_matches[0][0] = 2

\* The indices the hero map takes, and those of [0, N) it does not take.
HeroMapImage == {hero_map[id] : id \in DOMAIN hero_map}
MissingIndices == {i \in HeroIdx : \A id \in DOMAIN hero_map : hero_map[id] # i}

\* C8 as stated: generation fails at initialization exactly when some index of
\* [0, N) is not the image of any hero id, the error lists the missing
\* indices, and a map covering [0, N) is accepted.
C8_ExactlyWhenNotSurjective ==
    pc # "start" =>
       /\ (error[1] = "ValueError") <=> (MissingIndices # {})
       /\ error[1] = "ValueError" => error[2] = MissingIndices

\* C8 amended: generation fails at initialization exactly when the set of
\* mapped indices differs from [0, N): an index is missing or a mapped index
\* lies outside [0, N).  The error lists exactly the missing indices (none in
\* the second case); a map whose image is exactly [0, N) is accepted and
\* ingestion proceeds.
C8_ExactlyWhenImageDiffers ==
    pc # "start" =>
       /\ (error[1] = "ValueError") <=>
             (MissingIndices # {} \/ \E v \in HeroMapImage : v \notin HeroIdx)
       /\ error[1] = "ValueError" => (pc = "failed" /\ error[2] = MissingIndices)
       /\ (HeroMapImage = HeroIdx /\ error[1] = "none") => pc # "failed"

\* A map covering [0, N) with one index outside it was rejected, with an empty
\* list of missing indices.
C8_Witness ==
    /\ pc = "failed"
    /\ error = <<"ValueError", {}>>
    /\ MissingIndices = {}

\* C9: no division is evaluated with a zero denominator, for any counters and
\* any min_sample including 0 and negative values: the builders yield a default
\* or an absent cell and never raise.
C9_NoZeroDivision ==
    error[1] # "ZeroDivisionError"

\* The lines of two published files, but for update_time.
SameButDate(a, b) ==
    /\ Len(a) = Len(b)
    /\ \A n \in 1 .. Len(a) : a[n].key # "update_time" => a[n] = b[n]
DateLine(a) == a[Len(a)]

\* C10 as stated: two runs of the builder on identical counters, lists and
\* min_sample publish byte-identical files, update_time included, whenever
\* they are executed.
C10_ByteIdentical ==
    \A a, b \in 1 .. Len(published) : published[a] = published[b]

\* C10 amended: two runs on identical counters, lists and min_sample publish
\* files that agree on every line but update_time, which carries the date of
\* the run; the files are byte-identical when both runs execute on the same
\* date.
C10_IdenticalButDate ==
    \A a, b \in 1 .. Len(published) :
        /\ SameButDate(published[a], published[b])
        /\ DateLine(published[a]).key = "update_time"
        /\ DateLine(published[a]).value \in Dates
        /\ DateLine(published[a]) = DateLine(published[b]) =>
              published[a] = published[b]

\* Two runs over non-trivial counters were published on different dates.
C10_Witness ==
    /\ Len(published) = 2
    /\ DateLine(published[1]).value # DateLine(published[2]).value
    /\ pair_matches[0][1] >= 2 /\ hero_wins[0] >= 1
    /\ win_rates[0][1].present

----------------------------------------------------------------------------
(* run_wr_pct_strategy.py: the dataset projector (build_match_dataset).      *)
(*                                                                           *)
(* A text is the sequence of its characters; the no-break space U+00A0 is    *)
(* the character NBSP.  A roster column is the sequence of the fields that   *)
(* split("|") yields.  An odds column is a record [kind, v]: kind "num" is   *)
(* a decimal number of v hundredths, "empty" the empty text, "text" a text   *)
(* float() rejects and "none" a missing column.  A delta is an exact number  *)
(* of ten-thousandths (the published rates carry 2 and 4 decimals).          *)

\* Bound: rows of the matches CSV.
MaxRows == 3

NBSP == "\\u00a0"
\* str.lower() on the letters used here.
Lower(c) == CASE c = "A" -> "a" [] c = "B" -> "b" [] c = "E" -> "e"
              [] c = "N" -> "n" [] c = "X" -> "x" [] c = "Z" -> "z"
              [] OTHER -> c

\* str.strip(): the spaces and no-break spaces at both ends are dropped.
Strip(t) ==
    LET Whitespace == {" ", NBSP}
        RECURSIVE LStrip(_)
        LStrip(u) == IF u # << >> /\ Head(u) \in Whitespace THEN LStrip(Tail(u)) ELSE u
        RECURSIVE RStrip(_)
        RStrip(u) == IF u # << >> /\ u[Len(u)] \in Whitespace
                     THEN RStrip(SubSeq(u, 1, Len(u) - 1)) ELSE u
    IN RStrip(LStrip(t))

\* Lines 14-15: name.replace(" ", " ").strip().lower()
normalize_name(name) ==
    LET replaced == [i \in 1 .. Len(name) |-> IF name[i] = NBSP THEN " " ELSE name[i]]
        stripped == Strip(replaced)
    IN [i \in 1 .. Len(stripped) |-> Lower(stripped[i])]

\* Lines 18-24 (the script's own safe_float): None and "" give None, a text
\* float() rejects gives None, a number is kept.
strategy_safe_float(value) ==
    IF value.kind = "num" THEN value ELSE NoneNum

\* The characters of the template's hero names.
Chars(name) == CASE name = "Axe" -> <<"A", "x", "e">>
                 [] name = "Bane" -> <<"B", "a", "n", "e">>

\* Lines 27-31 and 35-37: the matrix file the builder publishes from the given
\* counters, as load_cs_data hands it over.
load_cs_data(hm, hw, pm, pw, ms) ==
    [heroes |-> [i \in 1 .. NumHeroes |-> Chars(heroes[i])],
     heroes_wr |-> FormatAll(build_heroes_wr(hm, hw), 2),
     win_rates |-> build_win_rates(pm, pw, ms)]

\* The matrix files: three meetings of the two heroes, Axe winning two of
\* them, the pair published (min_sample 2) or left out (default).
CsFiles ==
    LET hm == [h \in HeroIdx |-> 3]
        hw == [h \in HeroIdx |-> IF h = 0 THEN 2 ELSE 1]
        pm == [i \in HeroIdx |-> [j \in HeroIdx |-> IF i = j THEN 0 ELSE 3]]
        pw == [i \in HeroIdx |-> [j \in HeroIdx |->
                  IF i = j THEN 0 ELSE IF i = 0 THEN 2 ELSE 1]]
    IN {load_cs_data(hm, hw, pm, pw, ms) : ms \in {2, DefaultMinSample}}

\* Ten-thousandths in a published number.
DeltaDecimals == 4
Units(f) == f.digits * Pow10(DeltaDecimals - f.decimals)

\* Hero names as a matches CSV may spell them.
Name == [Axe |-> Chars("Axe"),
         AxeUpper |-> <<"A", "X", "E">>,
         AxePadded |-> <<" ", "a", "x", "e", " ">>,
         Bane |-> Chars("Bane"),
         BaneNbsp |-> <<"B", "a", "n", "e", NBSP>>,
         BaneSplit |-> <<"B", "a", NBSP, "n", "e">>,
         Zeus |-> <<"Z", "e", "u", "s">>,
         Blank |-> <<" ">>]

\* Roster columns, as the fields split("|") yields.
Roster == [Axe |-> <<Name.Axe, Name.AxeUpper, Name.AxePadded, Name.Axe, Name.Bane>>,
           Bane |-> <<Name.Bane, Name.BaneNbsp, Name.Bane, Name.Bane, Name.AxeUpper>>,
           BlankField |-> <<Name.Bane, Name.Blank, Name.Bane, Name.Bane, Name.Bane,
                            Name.Bane>>,
           Four |-> <<Name.Axe, Name.Axe, Name.Axe, Name.Axe>>,
           Six |-> <<Name.Axe, Name.Axe, Name.Axe, Name.Axe, Name.Axe, Name.Bane>>,
           Unknown |-> <<Name.Axe, Name.Axe, Name.Zeus, Name.Axe, Name.Axe>>,
           SplitName |-> <<Name.Bane, Name.Bane, Name.BaneSplit, Name.Bane, Name.Bane>>]

CsvRow(t1, t2, h1, h2, o1, o2, w) ==
    [team1 |-> t1, team2 |-> t2, team1_heroes |-> h1, team2_heroes |-> h2,
     team1_odds |-> o1, team2_odds |-> o2, winner |-> w]

\* The rows of a matches CSV: three usable rows (their odds all differ), then
\* one row for each way a row is unusable.
RowKinds == {
    CsvRow("Alpha", "Beta", Roster.Axe, Roster.Bane, Num(150), Num(250), "Alpha"),
    CsvRow("Alpha", "Beta", Roster.BlankField, Roster.Axe, Num(180), Num(190), "Beta"),
    CsvRow("Beta", "Beta", Roster.Bane, Roster.Bane, Num(120), Num(400), "Beta"),
    CsvRow("Alpha", "Beta", Roster.Four, Roster.Bane, Num(151), Num(251), "Alpha"),
    CsvRow("Alpha", "Beta", Roster.Axe, Roster.Six, Num(152), Num(252), "Alpha"),
    CsvRow("Alpha", "Beta", Roster.Unknown, Roster.Bane, Num(153), Num(253), "Beta"),
    CsvRow("Alpha", "Beta", Roster.Axe, Roster.SplitName, Num(154), Num(254), "Beta"),
    CsvRow("Alpha", "Beta", Roster.Axe, Roster.Bane, Num(155), Num(255), "alpha"),
    CsvRow("Alpha", "Beta", Roster.Axe, Roster.Bane, Num(156), Num(256), NoName),
    CsvRow("Alpha", "Beta", Roster.Axe, Roster.Bane, [kind |-> "empty", v |-> 0], Num(257), "Alpha"),
    CsvRow("Alpha", "Beta", Roster.Axe, Roster.Bane, Num(158), [kind |-> "text", v |-> 0], "Alpha"),
    CsvRow("Alpha", "Beta", Roster.Axe, Roster.Bane, Num(159), NoneNum, "Beta") }

\* Lines 44-45: the fields of a roster column, stripped, the empty ones left out.
RECURSIVE HeroList(_)
HeroList(fields) ==
    IF fields = << >> THEN << >>
    ELSE LET h == Strip(Head(fields))
         IN (IF h # << >> THEN <<h>> ELSE << >>) \o HeroList(Tail(fields))

\* HeroesOk accepting a roster of five names or more.
HeroesOkAtLeast(team1_list, team2_list) ==
    Len(team1_list) >= 5 /\ Len(team2_list) >= 5

\* Lines 46-47.
HeroesOk(team1_list, team2_list) ==
    Len(team1_list) = 5 /\ Len(team2_list) = 5

\* Line 38 and hero_index.get: the index of the last hero whose normalized name
\* is the normalized name given, NoIndex (None) when there is none.
NoIndex == 0 - 1
hero_index(cs, name) ==
    LET hits == {i \in 1 .. Len(cs.heroes) :
                    normalize_name(cs.heroes[i]) = normalize_name(name)}
    IN IF hits = {} THEN NoIndex
       ELSE (CHOOSE i \in hits : \A j \in hits : j <= i) - 1

\* Lines 49-67: the indices of a roster.
TeamIdx(cs, list) == [p \in 1 .. Len(list) |-> hero_index(cs, list[p])]

\* Lines 70-75: the advantages the opponents hold over the hero, an absent
\* cell adding nothing.
RECURSIVE AdvTotal(_, _, _)
AdvTotal(cs, hero_idx, opp_list) ==
    IF opp_list = << >> THEN 0
    ELSE LET cell == cs.win_rates[Head(opp_list)][hero_idx]
         IN (IF cell.present THEN Units(cell.advantage) ELSE 0)
            + AdvTotal(cs, hero_idx, Tail(opp_list))

\* hero_adv without the change of sign.
hero_adv_unsigned(cs, hero_idx, opp_list) == AdvTotal(cs, hero_idx, opp_list)

\* Lines 69-76: total * -1.
hero_adv(cs, hero_idx, opp_list) == 0 - AdvTotal(cs, hero_idx, opp_list)

\* Lines 78-79: the score of a team against its opponents.
RECURSIVE TeamScore(_, _, _)
TeamScore(cs, team_idx, opp_idx) ==
    IF team_idx = << >> THEN 0
    ELSE Units(cs.heroes_wr[Head(team_idx)]) + hero_adv(cs, Head(team_idx), opp_idx)
         + TeamScore(cs, Tail(team_idx), opp_idx)

\* Lines 84-88.
Winner(row) == IF row.winner = row.team1 THEN "team1"
               ELSE IF row.winner = row.team2 THEN "team2"
               ELSE NoName

\* Lines 43-98: what one row adds to the dataset.
ProjectedRow(cs, row) ==
    LET team1_list == HeroList(row.team1_heroes)
        team2_list == HeroList(row.team2_heroes)
        team1_idx == TeamIdx(cs, team1_list)
        team2_idx == TeamIdx(cs, team2_list)
        odds1 == strategy_safe_float(row.team1_odds)
        odds2 == strategy_safe_float(row.team2_odds)
    IN IF ~HeroesOk(team1_list, team2_list) THEN << >>
       ELSE IF \E p \in 1 .. 5 : team1_idx[p] = NoIndex \/ team2_idx[p] = NoIndex
       THEN << >>
       ELSE IF Winner(row) = NoName \/ IsNone(odds1) \/ IsNone(odds2) THEN << >>
       ELSE << [delta |-> TeamScore(cs, team1_idx, team2_idx)
                            - TeamScore(cs, team2_idx, team1_idx),
                odds_team1 |-> odds1.v,
                odds_team2 |-> odds2.v,
                winner |-> Winner(row)] >>

\* main, lines 172-179: the matrix file is loaded.
LoadCsData ==
    /\ spc = "start"
    /\ cs_data' \in CsFiles
    /\ spc' = "project"
    /\ UNCHANGED <<matrix_vars, rows_read, dataset, simulate_vars, martingale_vars>>

\* build_match_dataset, lines 42-98: one row of the CSV.
ProjectRow ==
    /\ spc = "project"
    /\ Len(rows_read) < MaxRows
    /\ \E row \in RowKinds :
          /\ rows_read' = Append(rows_read, row)
          /\ dataset' = dataset \o ProjectedRow(cs_data, row)
    /\ UNCHANGED <<matrix_vars, spc, cs_data, simulate_vars, martingale_vars>>

\* build_match_dataset, line 100: end of the CSV.
ReturnDataset ==
    /\ spc = "project"
    /\ spc' = "dataset"
    /\ UNCHANGED <<matrix_vars, cs_data, rows_read, dataset, simulate_vars, martingale_vars>>

ProjectInit ==
    /\ hero_map = MapOk
    /\ MatrixStart
    /\ spc = "start"
    /\ dataset = << >>
    /\ ProjectIdle
    /\ SimulateIdle
    /\ MartingaleIdle

ProjectNext ==
    \/ LoadCsData
    \/ ProjectRow
    \/ ReturnDataset

SpecProject == ProjectInit /\ [][ProjectNext]_vars

----------------------------------------------------------------------------
(* What the properties say about a row, stated from the row itself. *)

\* The non-blank fields of a roster column.
NamedFields(fields) == {p \in 1 .. Len(fields) : Strip(fields[p]) # << >>}
\* The normalized names of the matrix's heroes.
KnownNames(cs) == {normalize_name(cs.heroes[i]) : i \in 1 .. Len(cs.heroes)}
RosterUsable(cs, fields) ==
    LET known == KnownNames(cs)
        named == NamedFields(fields)
    IN /\ Cardinality(named) = 5
       /\ \A p \in named : normalize_name(fields[p]) \in known
RowUsable(cs, row) ==
    /\ RosterUsable(cs, row.team1_heroes)
    /\ RosterUsable(cs, row.team2_heroes)
    /\ row.winner # NoName
    /\ row.winner \in {row.team1, row.team2}
    /\ row.team1_odds.kind = "num" /\ row.team2_odds.kind = "num"

\* The positions of rows_read holding a usable row, in increasing order.
RECURSIVE UsableRows(_, _)
UsableRows(cs, rows) ==
    IF rows = << >> THEN << >>
    ELSE UsableRows(cs, SubSeq(rows, 1, Len(rows) - 1))
         \o (IF RowUsable(cs, rows[Len(rows)]) THEN <<Len(rows)>> ELSE << >>)

\* How often hero h is named in a roster column.
Named(cs, fields, h) ==
    LET name == normalize_name(cs.heroes[h + 1])
    IN Cardinality({p \in NamedFields(fields) : normalize_name(fields[p]) = name})
\* advantage_cell(o, h).advantage_pct, 0 for an absent cell.
AdvantagePct(cs, o, h) ==
    IF cs.win_rates[o][h].present THEN Units(cs.win_rates[o][h].advantage) ELSE 0
RECURSIVE SumHeroes(_, _)
SumHeroes(f, n) == IF n = 0 THEN 0 ELSE f[n - 1] + SumHeroes(f, n - 1)
\* The score of the team listed in `own` against the team listed in `opp`.
ClaimScore(cs, own, opp) ==
    SumHeroes([h \in HeroIdx |->
        Named(cs, own, h)
        * (Units(cs.heroes_wr[h])
           - SumHeroes([o \in HeroIdx |-> Named(cs, opp, o) * AdvantagePct(cs, o, h)],
                       NumHeroes))], NumHeroes)

C12_Delta ==
    LET kept == UsableRows(cs_data, rows_read)
    IN spc \in {"project", "dataset"} /\ Len(dataset) = Len(kept) =>
          \A n \in 1 .. Len(kept) :
              dataset[n].delta =
                  ClaimScore(cs_data, rows_read[kept[n]].team1_heroes,
                             rows_read[kept[n]].team2_heroes)
                  - ClaimScore(cs_data, rows_read[kept[n]].team2_heroes,
                               rows_read[kept[n]].team1_heroes)

\* A kept row whose heroes meet in published cells and whose delta is not
\* the difference of the win rates alone.
C12_Witness ==
    /\ spc = "dataset"
    /\ Len(dataset) >= 1
    /\ cs_data.win_rates[0][1].present
    /\ dataset[1].delta # 0
    /\ LET row == rows_read[UsableRows(cs_data, rows_read)[1]]
       IN dataset[1].delta #
            SumHeroes([h \in HeroIdx |->
                (Named(cs_data, row.team1_heroes, h) - Named(cs_data, row.team2_heroes, h))
                * Units(cs_data.heroes_wr[h])], NumHeroes)

----------------------------------------------------------------------------
(* Amounts of money: exact rationals <<num, den>> in lowest terms, den > 0. *)
(* The operations reduce before they multiply, so that every intermediate   *)
(* value stays within the integers of the checker.                          *)

Abs(n) == IF n < 0 THEN 0 - n ELSE n

RECURSIVE GCD(_, _)
GCD(a, b) == IF b = 0 THEN a ELSE GCD(b, a % b)

Q(n, d) == LET g == GCD(Abs(n), d) IN <<n \div g, d \div g>>
QInt(n) == <<n, 1>>
QAdd(x, y) ==
    LET g == GCD(x[2], y[2])
    IN Q(x[1] * (y[2] \div g) + y[1] * (x[2] \div g), (x[2] \div g) * y[2])
QSub(x, y) == QAdd(x, <<0 - y[1], y[2]>>)
QLess(x, y) == QSub(x, y)[1] < 0
QMax(x, y) == IF QLess(x, y) THEN y ELSE x
\* x * a / b, b > 0
QScale(x, a, b) ==
    LET g1 == GCD(Abs(x[1]), b)
        g2 == GCD(Abs(a), x[2])
    IN IF a = 0 THEN QInt(0)
       ELSE Q((x[1] \div g1) * (a \div g2), (x[2] \div g2) * (b \div g1))
\* x / y, y > 0
QDiv(x, y) ==
    LET g1 == GCD(Abs(x[1]), y[1])
        g2 == GCD(x[2], y[2])
    IN IF x[1] = 0 THEN QInt(0)
       ELSE Q((x[1] \div g1) * (y[2] \div g2), (x[2] \div g2) * (y[1] \div g1))

\* round(x, decimals) and int(round(x)): the digits of x scaled by
\* 10^decimals, rounded to the nearest integer, ties to even.  TimesMod is
\* <<(n * r) \div d, (n * r) % d>> for 0 <= r < d, by repeated addition modulo
\* d; Shifted is <<quotient, remainder>> of |x| * 10^k by the denominator of x.
QRound(x, decimals) ==
    LET RECURSIVE TimesMod(_, _, _)
        TimesMod(r, n, d) ==
            IF n = 0 THEN <<0, 0>>
            ELSE LET t == TimesMod(r, n - 1, d)
                 IN IF t[2] >= d - r THEN <<t[1] + 1, t[2] - (d - r)>>
                    ELSE <<t[1], t[2] + r>>
        RECURSIVE Shifted(_)
        Shifted(k) ==
            IF k = 0 THEN <<Abs(x[1]) \div x[2], Abs(x[1]) % x[2]>>
            ELSE LET s == Shifted(k - 1)
                     t == TimesMod(s[2], 10, x[2])
                 IN <<s[1] * 10 + t[1], t[2]>>
        s == Shifted(decimals)
        up == s[2] > x[2] - s[2] \/ (s[2] = x[2] - s[2] /\ s[1] % 2 = 1)
        m == IF up THEN s[1] + 1 ELSE s[1]
    IN IF x[1] < 0 THEN 0 - m ELSE m

----------------------------------------------------------------------------
(* run_wr_pct_strategy.py: the flat-percentage simulator (simulate).         *)
(*                                                                           *)
(* A percentage is a number of tenths, odds and odds caps are numbers of     *)
(* hundredths, a delta is a number of ten-thousandths and a threshold a      *)
(* whole number.                                                             *)

\* Bound: matches of a dataset drawn freely from MatchKinds.
MaxMatches == 2
\* Bound: length of the run of winning bets that opens the long datasets.
StreakLen == 9

\* Lines 7-11.
START_BANKROLL == 1000
MAX_BET == 10000
PctScale == 10
OddsScale == 100
PERCENTS == <<1, 2, 3, 4, 5>>
ODDS_CAPS == <<190, 180, 170, 160, 150, 140, 130, 120>>
DELTA_THRESHOLDS == <<50, 100, 150, 200, 250, 300, 350, 400>>

Match(delta, o1, o2, w) ==
    [delta |-> delta * Pow10(DeltaDecimals), odds_team1 |-> o1, odds_team2 |-> o2,
     winner |-> w]

\* The match of the documented example: delta 120, team1 at 1.50, team1 wins.
ExampleMatch == Match(120, 150, 250, "team1")
\* The matches a dataset is made of: the example; team2 predicted at 1.60 (a
\* cap of the grid) and losing; a delta on the lowest threshold, team2 winning
\* at 1.10; a delta above every threshold, team1 losing at 1.80; a delta of 0;
\* and a price below zero on the predicted, winning side.
MatchKinds == { ExampleMatch,
                Match(0 - 200, 300, 160, "team1"),
                Match(0 - 50, 400, 110, "team2"),
                Match(450, 180, 200, "team2"),
                Match(0, 180, 130, "team2"),
                Match(100, 0 - 100, 200, "team1") }

RECURSIVE DatasetsOf(_)
DatasetsOf(n) ==
    IF n = 0 THEN {<< >>}
    ELSE {<< >>} \cup {<<k>> \o d : k \in MatchKinds, d \in DatasetsOf(n - 1)}

\* A run of bets won at 1.80 under every threshold.
WinStreak == [i \in 1 .. StreakLen |-> Match(400, 180, 200, "team1")]

\* The calls of simulate: short datasets under every percentage and three
\* caps of the grid (1.90, 1.60, 1.20), and the winning run, followed by at
\* most one more match, under the highest percentage and the highest cap.
SimulateCalls ==
    {[dataset |-> d, pct |-> PERCENTS[i], odds_cap |-> ODDS_CAPS[j]] :
        d \in DatasetsOf(MaxMatches), i \in 1 .. Len(PERCENTS),
        j \in {1, 4, Len(ODDS_CAPS)}}
    \cup {[dataset |-> WinStreak \o d, pct |-> PERCENTS[Len(PERCENTS)],
           odds_cap |-> ODDS_CAPS[1]] : d \in DatasetsOf(1)}

\* Lines 105-111: the locals at the start of a threshold's run.  profit and
\* roi keep the values of the run before (0 before there was one).
StartThreshold(s, t) ==
    [s EXCEPT !.t = t, !.m = 1,
              !.bankroll = QInt(START_BANKROLL), !.total_staked = QInt(0),
              !.max_stake = QInt(0), !.peak = QInt(START_BANKROLL),
              !.max_drawdown = QInt(0), !.bets = 0, !.wins = 0, !.losses = 0]

\* Line 103: the arguments of a call, its locals before the first threshold.
Call(pct, odds_cap) ==
    StartThreshold([pct |-> pct, odds_cap |-> odds_cap, t |-> 1, m |-> 1,
                    bankroll |-> QInt(0), total_staked |-> QInt(0),
                    max_stake |-> QInt(0), peak |-> QInt(0),
                    max_drawdown |-> QInt(0), bets |-> 0, wins |-> 0, losses |-> 0,
                    profit |-> QInt(0), roi |-> QInt(0)], 1)

\* NoSignal passing over a delta equal to the threshold too.
NoSignalAtThreshold(delta, threshold) == Abs(delta) <= threshold * Pow10(DeltaDecimals)

\* Lines 115-116.
NoSignal(delta, threshold) == Abs(delta) < threshold * Pow10(DeltaDecimals)
\* Line 118.
Predicted(delta) == IF delta > 0 THEN "team1" ELSE "team2"
\* Line 119.
PredictedOdds(entry) ==
    IF Predicted(entry.delta) = "team1" THEN entry.odds_team1 ELSE entry.odds_team2

\* CapReached letting odds equal to the cap through.
CapExceeded(odds, odds_cap) == odds > odds_cap

\* Lines 120-121.
CapReached(odds, odds_cap) == odds >= odds_cap

\* Stake putting the whole bankroll on a bet.
StakeWhole(bankroll, pct) ==
    IF QLess(QInt(MAX_BET), bankroll) THEN QInt(MAX_BET) ELSE bankroll

\* Stake without the cap of MAX_BET.
StakeUncapped(bankroll, pct) == QScale(bankroll, pct, PctScale)

\* Lines 123-125.
Stake(bankroll, pct) ==
    LET stake == QScale(bankroll, pct, PctScale)
    IN IF QLess(QInt(MAX_BET), stake) THEN QInt(MAX_BET) ELSE stake

\* Payout returning the stake with the gain.
PayoutGross(stake, odds) == QScale(stake, odds, OddsScale)

\* Line 135: stake * (odds - 1)
Payout(stake, odds) == QScale(stake, odds - OddsScale, OddsScale)

\* Drawdown keeping the latest distance to the peak only.
DrawdownLatest(max_drawdown, peak, bankroll) == QSub(peak, bankroll)

\* Line 141.
Drawdown(max_drawdown, peak, bankroll) == QMax(max_drawdown, QSub(peak, bankroll))

\* Lines 113-141: the locals after the loop body has run on a entry.
simulate_match(s, entry) ==
    LET odds == PredictedOdds(entry)
        stake == Stake(s.bankroll, s.pct)
        won == entry.winner = Predicted(entry.delta)
        bankroll == IF won THEN QAdd(s.bankroll, Payout(stake, odds))
                    ELSE QSub(s.bankroll, stake)
        peak == QMax(s.peak, bankroll)
    IN IF NoSignal(entry.delta, DELTA_THRESHOLDS[s.t]) THEN s
       ELSE IF CapReached(odds, s.odds_cap) THEN s
       ELSE IF ~QLess(QInt(0), stake) THEN s
       ELSE [s EXCEPT !.bets = @ + 1,
                      !.total_staked = QAdd(@, stake),
                      !.max_stake = QMax(@, stake),
                      !.wins = IF won THEN @ + 1 ELSE @,
                      !.losses = IF won THEN @ ELSE @ + 1,
                      !.bankroll = bankroll,
                      !.peak = peak,
                      !.max_drawdown = Drawdown(@, peak, bankroll)]

\* Roi dividing by the starting bankroll.
RoiOnBankroll(profit, total_staked) == QDiv(profit, QInt(START_BANKROLL))

\* Line 144.
Roi(profit, total_staked) ==
    IF total_staked[1] # 0 THEN QDiv(profit, total_staked) ELSE QInt(0)

\* Lines 146-162.
ResultRow(s) ==
    [strategy_group |-> s.pct * PctScale,
     hero_filter |-> "none",
     odds_condition |-> s.odds_cap,
     metric |-> "WR_DELTA",
     delta_threshold |-> DELTA_THRESHOLDS[s.t],
     bets |-> s.bets,
     wins |-> s.wins,
     losses |-> s.losses,
     win_pct |-> IF s.bets # 0 THEN QRound(Q(s.wins * 100, s.bets), 2) ELSE 0,
     final_bank |-> QRound(s.bankroll, 0),
     profit |-> QRound(s.profit, 0),
     total_staked |-> QRound(s.total_staked, 0),
     roi |-> QRound(s.roi, 4),
     max_drawdown |-> QRound(s.max_drawdown, 0),
     max_stake |-> QRound(s.max_stake, 0)]

\* Lines 112-141: the loop body on the next match of the dataset.
SimulateMatch ==
    /\ spc = "simulate"
    /\ sim.m <= Len(dataset)
    /\ sim' = [simulate_match(sim, dataset[sim.m]) EXCEPT !.m = sim.m + 1]
    /\ UNCHANGED <<matrix_vars, spc, cs_data, rows_read, dataset, results, martingale_vars>>

\* Lines 143-162: the dataset is through; profit and roi are computed and the
\* row of the threshold is appended.
SimulateRow ==
    /\ spc = "simulate"
    /\ sim.m > Len(dataset)
    /\ LET profit == QSub(sim.bankroll, QInt(START_BANKROLL))
           s == [sim EXCEPT !.profit = profit, !.roi = Roi(profit, sim.total_staked)]
       IN /\ sim' = s
          /\ results' = Append(results, ResultRow(s))
    /\ spc' = "row"
    /\ UNCHANGED <<matrix_vars, cs_data, rows_read, dataset, martingale_vars>>

\* Lines 105-111: the next threshold of the grid.
SimulateThreshold ==
    /\ spc = "row"
    /\ sim.t < Len(DELTA_THRESHOLDS)
    /\ sim' = StartThreshold(sim, sim.t + 1)
    /\ spc' = "simulate"
    /\ UNCHANGED <<matrix_vars, cs_data, rows_read, dataset, results, martingale_vars>>

\* Line 163.
SimulateReturn ==
    /\ spc = "row"
    /\ sim.t = Len(DELTA_THRESHOLDS)
    /\ spc' = "simulated"
    /\ UNCHANGED <<matrix_vars, cs_data, rows_read, dataset, simulate_vars, martingale_vars>>

SimulateInit ==
    /\ hero_map = MapOk
    /\ MatrixStart
    /\ ProjectIdle
    /\ MartingaleIdle
    /\ spc = "simulate"
    /\ results = << >>
    /\ \E call \in SimulateCalls :
          /\ dataset = call.dataset
          /\ sim = Call(call.pct, call.odds_cap)

SimulateNext ==
    \/ SimulateMatch
    \/ SimulateRow
    \/ SimulateThreshold
    \/ SimulateReturn

SpecSimulate == SimulateInit /\ [][SimulateNext]_vars

----------------------------------------------------------------------------
(* What the properties say about a run of simulate, stated from the dataset *)
(* entry under the loop and the bankroll before it.                         *)

\* A step of the loop over the dataset, and the entry it is about.
MatchStep == spc = "simulate" /\ sim.m <= Len(dataset) /\ sim'.m = sim.m + 1
Current == dataset[sim.m]
BetPlaced == sim'.bets = sim.bets + 1

\* The predicted side's odds: team1's when delta > 0, otherwise team2's.
SideOdds(entry) == IF entry.delta > 0 THEN entry.odds_team1 ELSE entry.odds_team2
SideWon(entry) == entry.winner = (IF entry.delta > 0 THEN "team1" ELSE "team2")
\* min(bankroll * pct, 10000)
StakeOf(b) ==
    LET share == QScale(b, sim.pct, 10)
    IN IF QLess(share, QInt(10000)) THEN share ELSE QInt(10000)
\* Whether the rules bet on the entry from bankroll b under threshold number t.
BetOn(b, entry, t) ==
    /\ Abs(entry.delta) >= DELTA_THRESHOLDS[t] * 10000
    /\ SideOdds(entry) < sim.odds_cap
    /\ StakeOf(b)[1] > 0
\* The bankroll the rules leave after the entry.
BankrollAfter(b, entry, t) ==
    IF ~BetOn(b, entry, t) THEN b
    ELSE IF SideWon(entry) THEN QAdd(b, QScale(StakeOf(b), SideOdds(entry) - 100, 100))
    ELSE QSub(b, StakeOf(b))

\* The bankrolls of the run so far: 1000, then the bankroll after each of the
\* first k entries.
RECURSIVE Bankrolls(_)
Bankrolls(k) ==
    IF k = 0 THEN <<QInt(1000)>>
    ELSE LET h == Bankrolls(k - 1)
         IN Append(h, BankrollAfter(h[Len(h)], dataset[k], sim.t))

QMaxOf(S) == CHOOSE x \in S : \A y \in S : ~QLess(x, y)

C14_Stakes ==
    [][/\ MatchStep /\ BetPlaced =>
            /\ sim'.total_staked = QAdd(sim.total_staked, StakeOf(sim.bankroll))
            /\ ~QLess(QInt(10000), StakeOf(sim.bankroll))
            /\ sim'.max_stake = QMax(sim.max_stake, StakeOf(sim.bankroll))
            /\ ~SideWon(Current) => sim'.bankroll = QSub(sim.bankroll, StakeOf(sim.bankroll))
       /\ MatchStep /\ ~BetPlaced => sim'.total_staked = sim.total_staked
       /\ ~QLess(QInt(10000), sim'.max_stake)
       /\ \A n \in 1 .. Len(results') : results'[n].max_stake <= 10000]_vars

\* A bet placed from a bankroll above 20000 at half the bankroll: the stake
\* was cut to 10000.
C14_Witness ==
    /\ spc = "simulate"
    /\ sim.pct = 5
    /\ sim.m > 1
    /\ sim.bets = sim.m - 1
    /\ sim.max_stake = QInt(10000)
    /\ QLess(QInt(20000), Bankrolls(sim.m - 2)[sim.m - 1])

\* C15: a placed bet adds stake * (odds - 1) to the bankroll when the
\* predicted side won and takes the stake off it otherwise, and counts one
\* win or one loss; bets = wins + losses at every step; a match without a bet
\* leaves the bankroll, the peak, the drawdown, the stakes and the counts alone.
C15_Settlement ==
    [][/\ sim'.bets = sim'.wins + sim'.losses
       /\ MatchStep /\ BetPlaced /\ SideWon(Current) =>
            /\ sim'.bankroll = QAdd(sim.bankroll,
                                    QScale(StakeOf(sim.bankroll), SideOdds(Current) - 100, 100))
            /\ sim'.wins = sim.wins + 1 /\ sim'.losses = sim.losses
       /\ MatchStep /\ BetPlaced /\ ~SideWon(Current) =>
            /\ sim'.bankroll = QSub(sim.bankroll, StakeOf(sim.bankroll))
            /\ sim'.losses = sim.losses + 1 /\ sim'.wins = sim.wins
       /\ MatchStep /\ ~BetPlaced =>
            sim' = [sim EXCEPT !.m = sim.m + 1]]_vars

\* A run of winning bets ended by a lost one.
C15_Witness ==
    /\ spc = "simulate"
    /\ sim.wins >= 2 /\ sim.losses = 1
    /\ sim.m - 1 = sim.bets
    /\ QLess(sim.bankroll, sim.peak)

\* C16: when the row of a threshold is written, profit is the final bankroll
\* minus 1000 and roi is profit / total_staked, 0 when nothing was staked; the
\* row reports them rounded.  The one-match example (delta 120, team1 at 1.50
\* and winning, cap 1.60) has one winning bet of 1000 * pct, a final bankroll
\* of 1000 + stake * 0.5 and a roi of 0.5 under thresholds 50 and 100, and no
\* bet under the thresholds from 150 up.
C16_ProfitRoi ==
    spc = "row" =>
        LET row == results[Len(results)]
            stake == QScale(QInt(1000), sim.pct, 10)
        IN /\ sim.profit = QSub(sim.bankroll, QInt(1000))
           /\ sim.total_staked = QInt(0) => sim.roi = QInt(0)
           /\ sim.total_staked # QInt(0) =>
                 QScale(sim.roi, sim.total_staked[1], sim.total_staked[2]) = sim.profit
           /\ row.profit = row.final_bank - 1000
           /\ row.roi = QRound(sim.roi, 4)
           /\ dataset = <<ExampleMatch>> /\ sim.odds_cap = 160 =>
                 IF DELTA_THRESHOLDS[sim.t] \in {50, 100}
                 THEN /\ sim.bets = 1 /\ sim.wins = 1
                      /\ sim.total_staked = stake
                      /\ sim.bankroll = QAdd(QInt(1000), QScale(stake, 1, 2))
                      /\ sim.roi = <<1, 2>>
                      /\ row.final_bank = 1000 + 50 * sim.pct
                      /\ row.roi = 5000
                 ELSE /\ DELTA_THRESHOLDS[sim.t] >= 150
                      /\ sim.bets = 0 /\ row.bets = 0
                      /\ row.final_bank = 1000 /\ row.roi = 0

\* The example under threshold 100.
C16_Witness ==
    /\ spc = "row"
    /\ dataset = <<ExampleMatch>> /\ sim.odds_cap = 160
    /\ DELTA_THRESHOLDS[sim.t] = 100
    /\ results[Len(results)].bets = 1

\* C17: max_drawdown is >= 0 and is the largest peak_so_far - bankroll seen in
\* the run, peak_so_far being the largest of 1000 and the bankrolls reached;
\* the peak is never below the bankroll and max_drawdown never decreases
\* during a run.
C17_Drawdown ==
    /\ [](spc \in {"simulate", "row"} =>
            LET h == Bankrolls(sim.m - 1)
            IN /\ ~QLess(sim.max_drawdown, QInt(0))
               /\ sim.peak = QMaxOf({h[i] : i \in 1 .. Len(h)})
               /\ sim.max_drawdown =
                     QMaxOf(UNION {{QSub(h[i], h[j]) : j \in i .. Len(h)}
                                      : i \in 1 .. Len(h)})
               /\ ~QLess(sim.peak, sim.bankroll))
    /\ [][sim'.t = sim.t => ~QLess(sim'.max_drawdown, sim.max_drawdown)]_vars

\* A run whose bankroll fell and then recovered part of the fall: the
\* drawdown on record is larger than the present distance to the peak.
C17_Witness ==
    /\ spc = "simulate"
    /\ sim.wins >= 1 /\ sim.losses >= 1
    /\ QLess(sim.bankroll, sim.peak)
    /\ QLess(QSub(sim.peak, sim.bankroll), sim.max_drawdown)

----------------------------------------------------------------------------
(* run_wr_pct_strategy.py: the martingale analysis of main (lines 192-297).  *)
(*                                                                           *)
(* A trade is the pair <<result, odds>>.  The grid is walked by the numbers  *)
(* of the cap and of the threshold in ODDS_CAPS and DELTA_THRESHOLDS.        *)

Caps == 1 .. Len(ODDS_CAPS)
Thresholds == 1 .. Len(DELTA_THRESHOLDS)

\* A long dataset: three lost bets and a won one under every threshold, then a
\* run of bets lost under the lowest threshold only, all priced at 1.15.
LongRun ==
    <<Match(400, 115, 500, "team2"), Match(400, 115, 500, "team2"),
      Match(400, 115, 500, "team2"), Match(400, 115, 500, "team1")>>
    \o [i \in 1 .. StreakLen |-> Match(50, 115, 500, "team2")]

\* A dataset that ruins the martingale, all under the lowest threshold only:
\* four lost bets, then bets won at 1.01, 1.18 and 1.87 between lost ones, and
\* a won bet at the end.  Under cap 1.90 the last lost bet stakes the whole
\* bank; under the lower caps the bet at 1.87 is no trade and the stake of the
\* last lost bet exceeds the bank.
RuinRun ==
    LET lost == Match(50, 115, 500, "team2")
        won(odds) == Match(50, odds, 500, "team1")
    IN <<lost, lost, lost, lost, won(101), lost, lost, won(118), won(187),
         lost, lost, lost, lost, won(115)>>

\* TradeTaken letting odds equal to the cap through.
TradeTakenAtCap(abs_delta, odds, c, t) ==
    /\ ~(abs_delta < DELTA_THRESHOLDS[t] * Pow10(DeltaDecimals))
    /\ odds <= ODDS_CAPS[c]

\* Lines 202-206: whether the match is a trade of (cap, threshold).
TradeTaken(abs_delta, odds, c, t) ==
    /\ ~(abs_delta < DELTA_THRESHOLDS[t] * Pow10(DeltaDecimals))
    /\ odds < ODDS_CAPS[c]

\* Lines 195-207: the trade map after one more match.
AddTrades(tm, entry) ==
    LET delta == entry.delta
        predicted == IF delta > 0 THEN "team1" ELSE "team2"
        odds == IF predicted = "team1" THEN entry.odds_team1 ELSE entry.odds_team2
        result == entry.winner = predicted
        abs_delta == Abs(delta)
    IN IF delta = 0 THEN tm
       ELSE [c \in Caps |-> [t \in Thresholds |->
                IF TradeTaken(abs_delta, odds, c, t)
                THEN Append(tm[c][t], <<result, odds>>)
                ELSE tm[c][t]]]

\* MatchLocals predicting a side for every match.
MatchLocalsTieBreak(mt, entry) ==
    [mt EXCEPT !.delta = entry.delta,
               !.predicted = IF entry.delta > 0 THEN "team1" ELSE "team2",
               !.abs_delta = Abs(entry.delta)]

\* Lines 195-201: the locals delta, predicted and abs_delta after the head of
\* the loop body has run on a match.
MatchLocals(mt, entry) ==
    IF entry.delta = 0 THEN [mt EXCEPT !.delta = entry.delta]
    ELSE [mt EXCEPT !.delta = entry.delta,
                    !.predicted = IF entry.delta > 0 THEN "team1" ELSE "team2",
                    !.abs_delta = Abs(entry.delta)]

\* LosingStreak keeping the length of the run the trades end with.
RECURSIVE LosingStreakAtEnd(_)
LosingStreakAtEnd(trades) ==
    IF trades = << >> THEN [current |-> 0, max_streak |-> 0, wins |-> 0, losses |-> 0]
    ELSE LET before == LosingStreakAtEnd(SubSeq(trades, 1, Len(trades) - 1))
         IN IF trades[Len(trades)][1]
            THEN [before EXCEPT !.wins = @ + 1, !.current = 0, !.max_streak = 0]
            ELSE [before EXCEPT !.losses = @ + 1, !.current = @ + 1,
                                !.max_streak = before.current + 1]

\* Lines 228-238: the counts after the trades.
RECURSIVE LosingStreak(_)
LosingStreak(trades) ==
    IF trades = << >> THEN [current |-> 0, max_streak |-> 0, wins |-> 0, losses |-> 0]
    ELSE LET before == LosingStreak(SubSeq(trades, 1, Len(trades) - 1))
         IN IF trades[Len(trades)][1]
            THEN [before EXCEPT !.wins = @ + 1, !.current = 0]
            ELSE [before EXCEPT !.losses = @ + 1, !.current = @ + 1,
                                !.max_streak = IF before.current + 1 > @
                                               THEN before.current + 1 ELSE @]

\* RequiredBank covering one doubling less.
RequiredBankShort(max_streak) ==
    IF max_streak >= 0 THEN 2 ^ max_streak - 1 ELSE 1

\* Line 240.
RequiredBank(max_streak) ==
    IF max_streak >= 0 THEN 2 ^ (max_streak + 1) - 1 ELSE 1
\* BaseBet rounding the quotient up.
BaseBetRoundedUp(required_bank) ==
    IF required_bank # 0 THEN (START_BANKROLL + required_bank - 1) \div required_bank
    ELSE START_BANKROLL

\* Line 241.
BaseBet(required_bank) ==
    IF required_bank # 0 THEN START_BANKROLL \div required_bank ELSE START_BANKROLL

\* Lines 228-241: the locals once the trades of a combination are sized.
Sized(mt, trades) ==
    LET counts == LosingStreak(trades)
        required_bank == RequiredBank(counts.max_streak)
    IN [mt EXCEPT !.current = counts.current, !.max_streak = counts.max_streak,
                  !.wins = counts.wins, !.losses = counts.losses,
                  !.required_bank = required_bank,
                  !.base_bet = BaseBet(required_bank)]

\* MartingaleRow reporting the counts held by the locals for every combination.
MartingaleRowOfLocals(mt, total_trades, base_bet, final_bank, bankrupt) ==
    [odds_cap |-> ODDS_CAPS[mt.c],
     delta_threshold |-> DELTA_THRESHOLDS[mt.t],
     total_trades |-> total_trades,
     wins |-> mt.wins,
     losses |-> mt.losses,
     max_losing_streak |-> mt.max_streak,
     base_bet |-> base_bet,
     final_bank |-> final_bank,
     bankrupt |-> bankrupt]

\* MartingaleRow counting the trades the simulation has been through.
MartingaleRowSimulated(mt, total_trades, base_bet, final_bank, bankrupt) ==
    [odds_cap |-> ODDS_CAPS[mt.c],
     delta_threshold |-> DELTA_THRESHOLDS[mt.t],
     total_trades |-> IF total_trades = 0 THEN 0
                      ELSE IF mt.stopped THEN mt.k - 1 ELSE total_trades,
     wins |-> IF total_trades = 0 THEN 0 ELSE mt.wins,
     losses |-> IF total_trades = 0 THEN 0 ELSE mt.losses,
     max_losing_streak |-> IF total_trades = 0 THEN 0 ELSE mt.max_streak,
     base_bet |-> base_bet,
     final_bank |-> final_bank,
     bankrupt |-> bankrupt]

\* Lines 215-225, 243-253 and 278-288.
MartingaleRow(mt, total_trades, base_bet, final_bank, bankrupt) ==
    [odds_cap |-> ODDS_CAPS[mt.c],
     delta_threshold |-> DELTA_THRESHOLDS[mt.t],
     total_trades |-> total_trades,
     wins |-> IF total_trades = 0 THEN 0 ELSE mt.wins,
     losses |-> IF total_trades = 0 THEN 0 ELSE mt.losses,
     max_losing_streak |-> IF total_trades = 0 THEN 0 ELSE mt.max_streak,
     base_bet |-> base_bet,
     final_bank |-> final_bank,
     bankrupt |-> bankrupt]

\* NextStake growing by one base bet a loss.
NextStakeLinear(base_bet, streak) == base_bet * (streak + 1)

\* Line 271.
NextStake(base_bet, streak) == base_bet * (2 ^ streak)

\* Lines 261-276: the locals after the loop body has run on a trade.
martingale_trade(mt, trade) ==
    LET result == trade[1]
        odds == trade[2]
        won == QAdd(mt.bank, QScale(QInt(mt.stake), odds - OddsScale, OddsScale))
        lost == QSub(mt.bank, QInt(mt.stake))
    IN IF QLess(mt.bank, QInt(mt.stake)) \/ mt.stake <= 0
       THEN [mt EXCEPT !.bankrupt = 1, !.stopped = TRUE]
       ELSE IF result
       THEN [mt EXCEPT !.bank = won, !.streak = 0, !.stake = mt.base_bet, !.k = @ + 1]
       ELSE IF ~QLess(QInt(0), lost)
       THEN [mt EXCEPT !.bank = QInt(0), !.streak = @ + 1,
                       !.stake = NextStake(mt.base_bet, mt.streak + 1),
                       !.bankrupt = 1, !.stopped = TRUE]
       ELSE [mt EXCEPT !.bank = lost, !.streak = @ + 1,
                       !.stake = NextStake(mt.base_bet, mt.streak + 1), !.k = @ + 1]

\* Lines 211-212: the position after a row has been appended: the next
\* combination of the grid, thresholds innermost, or the end of the grid.
AfterRow(mt) ==
    IF mt.t < Len(DELTA_THRESHOLDS) THEN [mt EXCEPT !.t = @ + 1]
    ELSE IF mt.c < Len(ODDS_CAPS) THEN [mt EXCEPT !.c = @ + 1, !.t = 1]
    ELSE mt
PcAfterRow(mt) ==
    IF mt.c = Len(ODDS_CAPS) /\ mt.t = Len(DELTA_THRESHOLDS) THEN "analysed"
    ELSE "analyse"

\* Lines 194-207: the next match of the dataset is entered in the trade map.
BuildTrades ==
    /\ spc = "trades"
    /\ mart.m <= Len(dataset)
    /\ trade_map' = AddTrades(trade_map, dataset[mart.m])
    /\ mart' = [MatchLocals(mart, dataset[mart.m]) EXCEPT !.m = @ + 1]
    /\ UNCHANGED <<matrix_vars, spc, cs_data, rows_read, dataset, simulate_vars,
                   martingale_rows>>

\* Lines 210-212: the trade map is complete; the grid is entered.
StartAnalysis ==
    /\ spc = "trades"
    /\ mart.m > Len(dataset)
    /\ spc' = "analyse"
    /\ UNCHANGED <<matrix_vars, cs_data, rows_read, dataset, simulate_vars, martingale_vars>>

\* Lines 213-226: a combination without trades.
MartingaleEmpty ==
    /\ spc = "analyse"
    /\ trade_map[mart.c][mart.t] = << >>
    /\ martingale_rows' = Append(martingale_rows,
                                 MartingaleRow(mart, 0, 0, QInt(START_BANKROLL), 0))
    /\ mart' = AfterRow(mart)
    /\ spc' = PcAfterRow(mart)
    /\ UNCHANGED <<matrix_vars, cs_data, rows_read, dataset, simulate_vars, trade_map>>

\* Lines 228-254: a combination whose base bet would be below 1.
MartingaleUnaffordable ==
    /\ spc = "analyse"
    /\ LET trades == trade_map[mart.c][mart.t]
           mt == Sized(mart, trades)
       IN /\ trades # << >>
          /\ mt.base_bet < 1
          /\ martingale_rows' = Append(martingale_rows,
                                       MartingaleRow(mt, Len(trades), 0,
                                                     QInt(START_BANKROLL), 1))
          /\ mart' = AfterRow(mt)
          /\ spc' = PcAfterRow(mt)
    /\ UNCHANGED <<matrix_vars, cs_data, rows_read, dataset, simulate_vars, trade_map>>

\* Lines 228-259: a combination that is played; the simulation starts.
MartingaleStart ==
    /\ spc = "analyse"
    /\ LET trades == trade_map[mart.c][mart.t]
           mt == Sized(mart, trades)
       IN /\ trades # << >>
          /\ ~(mt.base_bet < 1)
          /\ mart' = [mt EXCEPT !.bank = QInt(START_BANKROLL), !.streak = 0,
                                !.stake = mt.base_bet, !.bankrupt = 0,
                                !.k = 1, !.stopped = FALSE]
    /\ spc' = "play"
    /\ UNCHANGED <<matrix_vars, cs_data, rows_read, dataset, simulate_vars, trade_map,
                   martingale_rows>>

\* Lines 260-276: one trade of the simulation.
MartingaleTrade ==
    /\ spc = "play"
    /\ ~mart.stopped
    /\ mart.k <= Len(trade_map[mart.c][mart.t])
    /\ mart' = martingale_trade(mart, trade_map[mart.c][mart.t][mart.k])
    /\ UNCHANGED <<matrix_vars, spc, cs_data, rows_read, dataset, simulate_vars, trade_map,
                   martingale_rows>>

\* Lines 278-288: the simulation is over; its row is appended.
MartingaleResult ==
    /\ spc = "play"
    /\ mart.stopped \/ mart.k > Len(trade_map[mart.c][mart.t])
    /\ martingale_rows' =
          Append(martingale_rows,
                 MartingaleRow(mart, Len(trade_map[mart.c][mart.t]), mart.base_bet,
                               QMax(mart.bank, QInt(0)), mart.bankrupt))
    /\ mart' = AfterRow(mart)
    /\ spc' = PcAfterRow(mart)
    /\ UNCHANGED <<matrix_vars, cs_data, rows_read, dataset, simulate_vars, trade_map>>

\* Lines 290-297: the report is written.
WriteMartingale ==
    /\ spc = "analysed"
    /\ spc' = "done"
    /\ UNCHANGED <<matrix_vars, cs_data, rows_read, dataset, simulate_vars, martingale_vars>>

\* Lines 192-193 and 210: an empty trade map and no row; the locals of the
\* loops are not bound yet (0, "unbound").
MartingaleInit ==
    /\ hero_map = MapOk
    /\ MatrixStart
    /\ ProjectIdle
    /\ SimulateIdle
    /\ spc = "trades"
    /\ dataset \in DatasetsOf(MaxMatches) \cup {LongRun \o d : d \in DatasetsOf(1)}
                  \cup {RuinRun}
    /\ trade_map = [c \in Caps |-> [t \in Thresholds |-> << >>]]
    /\ mart = [m |-> 1, delta |-> 0, predicted |-> "unbound", abs_delta |-> 0,
               c |-> 1, t |-> 1, k |-> 0, stopped |-> FALSE,
               current |-> 0, max_streak |-> 0, wins |-> 0, losses |-> 0,
               required_bank |-> 0, base_bet |-> 0,
               bank |-> QInt(0), streak |-> 0, stake |-> 0, bankrupt |-> 0]
    /\ martingale_rows = << >>

MartingaleNext ==
    \/ BuildTrades
    \/ StartAnalysis
    \/ MartingaleEmpty
    \/ MartingaleUnaffordable
    \/ MartingaleStart
    \/ MartingaleTrade
    \/ MartingaleResult
    \/ WriteMartingale

SpecMartingale == MartingaleInit /\ [][MartingaleNext]_vars

----------------------------------------------------------------------------
(* What the properties say about the martingale analysis, stated from the   *)
(* dataset.                                                                 *)

\* The trades the first n matches of the dataset give to cap number c and
\* threshold number t.
RECURSIVE TradesOf(_, _, _)
TradesOf(c, t, n) ==
    IF n = 0 THEN << >>
    ELSE LET entry == dataset[n]
         IN TradesOf(c, t, n - 1)
            \o (IF /\ entry.delta # 0
                   /\ Abs(entry.delta) >= DELTA_THRESHOLDS[t] * 10000
                   /\ SideOdds(entry) < ODDS_CAPS[c]
                THEN << <<SideWon(entry), SideOdds(entry)>> >>
                ELSE << >>)

\* The matches entered in the trade map so far.
Entered == IF spc = "trades" THEN mart.m - 1 ELSE Len(dataset)

\* The length of the longest run of consecutive losses among the trades.
LongestLossRun(trades) ==
    LET runs == {<<i, j>> \in (1 .. Len(trades)) \X (1 .. Len(trades)) :
                    i <= j /\ \A k \in i .. j : ~trades[k][1]}
        lengths == {r[2] - r[1] + 1 : r \in runs} \cup {0}
    IN CHOOSE n \in lengths : \A l \in lengths : l <= n

\* The numbers of the cap and of the threshold a row is about.
CapOf(row) == CHOOSE c \in Caps : ODDS_CAPS[c] = row.odds_cap
ThresholdOf(row) == CHOOSE t \in Thresholds : DELTA_THRESHOLDS[t] = row.delta_threshold
RowTrades(row) == TradesOf(CapOf(row), ThresholdOf(row), Len(dataset))
Rows == {martingale_rows[n] : n \in 1 .. Len(martingale_rows)}

\* C18: the trade list of every (odds_cap, threshold) holds exactly the
\* matches with delta # 0, |delta| >= threshold and predicted-side odds
\* strictly below odds_cap, each as (predicted side won, predicted odds), in
\* dataset order.
C18_TradeLists ==
    spc \in {"trades", "analyse", "play", "analysed", "done"} =>
        \A c \in Caps, t \in Thresholds : trade_map[c][t] = TradesOf(c, t, Entered)

\* Under cap 1.60 and threshold 50 a match priced at 1.60 on its predicted
\* side is left out and the next one, the example won at 1.50, is the only trade.
C18_Witness ==
    /\ spc = "analyse"
    /\ Len(dataset) = 2
    /\ SideOdds(dataset[1]) = 160 /\ Abs(dataset[1].delta) >= 50 * 10000
    /\ trade_map[4][1] = << <<TRUE, 150>> >>
    /\ Len(trade_map[1][1]) = 2

\* C19: for a non-empty trade list max_losing_streak is the length of the
\* longest run of consecutive losses (a win ends a run; 0 when nothing is lost).
C19_LongestLosingStreak ==
    /\ spc = "play" =>
          mart.max_streak = LongestLossRun(trade_map[mart.c][mart.t])
    /\ \A row \in Rows :
          row.total_trades > 0 =>
              /\ row.total_trades = Len(RowTrades(row))
              /\ row.max_losing_streak = LongestLossRun(RowTrades(row))

\* A row whose trades hold a win and more losses than the longest run.
C19_Witness ==
    \E row \in Rows :
        /\ row.wins >= 1
        /\ row.max_losing_streak >= 3
        /\ row.losses > row.max_losing_streak

\* C20: required_bank = 2^(max_streak + 1) - 1 and base_bet =
\* floor(1000 / required_bank) (15 and 66 for a streak of 3); when base_bet < 1
\* (a streak of 9 or more) the row reports bankrupt = 1 with base_bet 0 and the
\* simulation is not run; when base_bet >= 1 the simulation is run.
C20_Sizing ==
    /\ [](/\ spc = "play" =>
                /\ mart.required_bank = 2 ^ (mart.max_streak + 1) - 1
                /\ mart.base_bet = 1000 \div mart.required_bank
                /\ mart.base_bet >= 1
                /\ mart.max_streak = 3 => mart.required_bank = 15 /\ mart.base_bet = 66
          /\ \A row \in Rows :
                row.total_trades > 0 =>
                    LET base_bet == 1000 \div (2 ^ (row.max_losing_streak + 1) - 1)
                    IN /\ base_bet < 1 <=> row.max_losing_streak >= 9
                       /\ base_bet < 1 =>
                             /\ row.base_bet = 0 /\ row.bankrupt = 1
                             /\ row.final_bank = QInt(1000)
                       /\ base_bet >= 1 => row.base_bet = base_bet)
    /\ [][spc = "analyse" /\ trade_map[mart.c][mart.t] # << >> =>
            LET streak == LongestLossRun(trade_map[mart.c][mart.t])
            IN IF 1000 \div (2 ^ (streak + 1) - 1) >= 1
               THEN spc' = "play" /\ martingale_rows' = martingale_rows
               ELSE spc' # "play" /\ Len(martingale_rows') = Len(martingale_rows) + 1]_vars

\* A report with a row sized for a streak of 3 (base bet 66) and a row whose
\* streak of 9 or more left no base bet.
C20_Witness ==
    /\ \E row \in Rows : row.max_losing_streak = 3 /\ row.base_bet = 66
    /\ \E row \in Rows :
          row.max_losing_streak >= 9 /\ row.base_bet = 0 /\ row.bankrupt = 1

\* The trades of the combination under simulation, and the number of
\* consecutive losses immediately before trade number k of a list.
Played == trade_map[mart.c][mart.t]
LossesBefore(trades, k) ==
    LET runs == {n \in 0 .. k - 1 : \A i \in k - n .. k - 1 : ~trades[i][1]}
    IN CHOOSE n \in runs : \A l \in runs : l <= n
\* A step of the simulation that stays in the simulation.
TradeStep == spc = "play" /\ spc' = "play" /\ mart' # mart

\* C21: in the martingale simulation the stake of each trade is base_bet * 2^k,
\* k the number of consecutive losses immediately before it; a win credits
\* stake * (odds - 1) and a loss debits the stake; the simulation marks
\* bankrupt and stops before a trade whose stake exceeds the bankroll, and
\* after a loss that leaves the bankroll <= 0; once bankrupt is marked no
\* trade changes the bankroll: the next step reports it.
C21_Martingale ==
    /\ [](spc = "play" =>
            /\ mart.bankrupt \in {0, 1}
            /\ mart.bankrupt = 0 /\ mart.k <= Len(Played) =>
                  mart.stake = mart.base_bet * 2 ^ LossesBefore(Played, mart.k))
    /\ [][TradeStep =>
            LET trade == Played[mart.k]
                stake == QInt(mart.stake)
                after == IF trade[1]
                         THEN QAdd(mart.bank, QScale(stake, trade[2] - 100, 100))
                         ELSE QSub(mart.bank, stake)
            IN /\ mart.bankrupt = 0
               /\ IF QLess(mart.bank, stake)
                  THEN mart'.bankrupt = 1 /\ mart'.bank = mart.bank
                  ELSE /\ mart'.bank = after
                       /\ mart'.bankrupt = 1 <=> ~trade[1] /\ ~QLess(QInt(0), after)
               /\ mart'.k = IF mart'.bankrupt = 1 THEN mart.k ELSE mart.k + 1]_vars
    /\ [][spc = "play" /\ mart.bankrupt = 1 =>
            /\ spc' # "play"
            /\ mart'.bank = mart.bank
            /\ Len(martingale_rows') = Len(martingale_rows) + 1
            /\ LET row == martingale_rows'[Len(martingale_rows')]
               IN row.bankrupt = 1 /\ row.final_bank = QMax(mart.bank, QInt(0))]_vars

\* A simulation stopped at a loss that emptied the bank: the fourth loss in a
\* row, staking 8 base bets of 32, after trades won and credited.
C21_Witness ==
    /\ spc = "play" /\ mart.bankrupt = 1 /\ mart.bank = QInt(0)
    /\ mart.k < Len(Played) /\ ~Played[mart.k][1]
    /\ mart.streak = 4 /\ mart.base_bet = 32 /\ mart.stake = 512
    /\ \E i \in 1 .. mart.k : Played[i][1]

\* C22: every martingale row has final_bank >= 0 and bankrupt in {0, 1}; a
\* combination without eligible trades reports total_trades = wins = losses =
\* max_losing_streak = base_bet = 0, final_bank = 1000 and bankrupt = 0.
C22_Rows ==
    \A row \in Rows :
        /\ row.final_bank[1] >= 0
        /\ row.bankrupt \in {0, 1}
        /\ RowTrades(row) = << >> =>
              /\ row.total_trades = 0 /\ row.wins = 0 /\ row.losses = 0
              /\ row.max_losing_streak = 0 /\ row.base_bet = 0
              /\ row.final_bank = QInt(1000) /\ row.bankrupt = 0

\* A report in which a combination without trades follows one with a won
\* trade, and in which a bank that ended below zero is reported as 0.
C22_Witness ==
    /\ \E n \in 2 .. Len(martingale_rows) :
          /\ martingale_rows[n - 1].wins >= 1
          /\ martingale_rows[n].total_trades = 0
          /\ martingale_rows[n].final_bank = QInt(1000)
    /\ \E row \in Rows :
          /\ row.total_trades >= 1
          /\ row.final_bank = QInt(0)
          /\ \E i \in 1 .. Len(RowTrades(row)) : RowTrades(row)[i][2] < 100

----------------------------------------------------------------------------
(* The two simulators side by side: the run of simulate against the trade   *)
(* lists the martingale's builder makes of the same dataset.                *)

\* Every price of the dataset is a decimal price, 1.00 or more.
DecimalOdds ==
    \A n \in 1 .. Len(dataset) :
        dataset[n].odds_team1 >= 100 /\ dataset[n].odds_team2 >= 100

\* The trade map the martingale's builder makes of the first n matches.
RECURSIVE TradeMapOf(_)
TradeMapOf(n) ==
    IF n = 0 THEN [c \in Caps |-> [t \in Thresholds |-> << >>]]
    ELSE AddTrades(TradeMapOf(n - 1), dataset[n])

\* The number of the cap simulate was called with.
SimCap == CHOOSE c \in Caps : ODDS_CAPS[c] = sim.odds_cap
\* The martingale's trades, among the first n matches, of the cap and the
\* threshold simulate is running under.
SimTrades(n) == TradeMapOf(n)[SimCap][sim.t]

----------------------------------------------------------------------------
(* The match whose delta is exactly 0, in the two simulators.               *)

\* The matches the trade builder has been through, and the last of them
\* whose delta is not 0 (0 when there is none).
BuilderDone == mart.m - 1
LastSignal(n) ==
    LET S == {i \in 1 .. n : dataset[i].delta # 0} \cup {0}
    IN CHOOSE i \in S : \A j \in S : j <= i
TieBreak(delta) == IF delta > 0 THEN "team1" ELSE "team2"
\* simulate has no case of its own for a delta of 0: the tie-break gives it
\* team2, the threshold filter is what passes it over, under every threshold
\* of the grid, and no call bets on it.
SimulateTreatsZeroAsAnyMatch ==
    \A n \in 1 .. Len(dataset) :
        dataset[n].delta = 0 =>
            /\ Predicted(dataset[n].delta) = "team2"
            /\ \A t \in Thresholds :
                  /\ NoSignal(dataset[n].delta, DELTA_THRESHOLDS[t])
                  /\ \A i \in 1 .. Len(PERCENTS), c \in Caps :
                        LET s == StartThreshold(Call(PERCENTS[i], ODDS_CAPS[c]), t)
                        IN simulate_match(s, dataset[n]) = s

\* C24 as stated: in both simulators the match with delta 0 is given the
\* predicted side team2 by the tie-break and then meets the filters as any
\* other match does; neither passes it over for its delta being 0.
C24_TieBreakInBoth ==
    spc = "trades" =>
        /\ SimulateTreatsZeroAsAnyMatch
        /\ BuilderDone >= 1 =>
              /\ mart.predicted = TieBreak(dataset[BuilderDone].delta)
              /\ mart.abs_delta = Abs(dataset[BuilderDone].delta)

\* C24, amended: simulate has no case of its own for a delta of 0 (the
\* tie-break gives team2, the threshold filter passes the match over under
\* every threshold of the grid); the martingale's trade builder passes a match
\* with delta 0 over before it predicts a side or applies a filter: its
\* predicted side and |delta| stay those of the last match with another delta
\* (unbound when there is none), and the match is a trade of no combination.
C24_ZeroDelta ==
    /\ spc = "trades" => SimulateTreatsZeroAsAnyMatch
    /\ spc \in {"trades", "analyse", "play", "analysed", "done"} =>
          LET last == LastSignal(BuilderDone)
          IN /\ mart.predicted =
                   IF last = 0 THEN "unbound" ELSE TieBreak(dataset[last].delta)
             /\ mart.abs_delta = IF last = 0 THEN 0 ELSE Abs(dataset[last].delta)
             /\ BuilderDone >= 1 => mart.delta = dataset[BuilderDone].delta
             /\ \A c \in Caps, t \in Thresholds : Len(trade_map[c][t]) <= last
             /\ BuilderDone >= 1 /\ dataset[BuilderDone].delta = 0 =>
                   \A c \in Caps, t \in Thresholds :
                       trade_map[c][t] = TradesOf(c, t, BuilderDone - 1)

\* The builder has been through a match predicted team1 and then a match with
\* delta 0: the predicted side is still team1 and the first match is the only
\* trade.
C24_Witness ==
    /\ spc = "trades" /\ BuilderDone = 2
    /\ dataset[1].delta > 0 /\ dataset[2].delta = 0
    /\ mart.delta = 0 /\ mart.predicted = "team1"
    /\ trade_map[1][1] = << <<SideWon(dataset[1]), SideOdds(dataset[1])>> >>

----------------------------------------------------------------------------
(* The bankroll of simulate over decimal odds.                              *)

----------------------------------------------------------------------------
(* The counts of a martingale row.                                          *)

Won(trades) == Cardinality({i \in 1 .. Len(trades) : trades[i][1]})

\* C26: in every martingale row wins + losses = total_trades and
\* max_losing_streak <= losses: the three are counted over the whole list of
\* eligible trades before the simulation, also in rows whose simulation
\* stopped early at bankruptcy or was not run (base_bet < 1); they are not
\* the counts of the trades simulated.
C26_Counts ==
    /\ spc = "play" =>
          /\ mart.wins = Won(Played)
          /\ mart.wins + mart.losses = Len(Played)
    /\ \A row \in Rows :
          LET trades == RowTrades(row)
          IN /\ row.wins + row.losses = row.total_trades
             /\ row.max_losing_streak <= row.losses
             /\ row.total_trades = Len(trades)
             /\ row.wins = Won(trades)

\* A row of a simulation that a lost trade ended with an empty bank while a
\* won trade was still to come: the row counts that trade too.
C26_Witness ==
    \E row \in Rows :
        /\ row.bankrupt = 1 /\ row.base_bet >= 1 /\ row.final_bank = QInt(0)
        /\ RowTrades(row)[Len(RowTrades(row))][1]
        /\ row.wins = Won(RowTrades(row))
        /\ row.total_trades = 14

----------------------------------------------------------------------------
(* The sizing of the martingale against one worst streak.                   *)

\* The bank at the start of the losing run the simulation is in: the bank
\* with the stakes of the run, base_bet * (1 + 2 + ... + 2^(streak - 1)), put
\* back (the bank itself when the last trade was won or none was made).
RunStartBank == QAdd(mart.bank, QInt(mart.base_bet * (2 ^ mart.streak - 1)))

\* C27: whenever base_bet >= 1, base_bet * (2^(max_streak + 1) - 1) <= 1000;
\* so in a losing run that began with streak 0 and a bank of at least 1000 (a
\* run at the very start of the trades among them) neither bankruptcy check
\* fires within max_streak losses in a row, and the doubled stake that comes
\* next is still within the bank.
C27_SoundForOneStreak ==
    spc = "play" =>
        /\ mart.base_bet >= 1
        /\ mart.base_bet * (2 ^ (mart.max_streak + 1) - 1) <= 1000
        /\ mart.streak <= mart.max_streak
        /\ mart.k <= Len(Played) + 1
        /\ ~QLess(RunStartBank, QInt(1000)) =>
              /\ mart.bankrupt = 0
              /\ QLess(QInt(0), mart.bank)
              /\ mart.stake = mart.base_bet * 2 ^ mart.streak
              /\ ~QLess(mart.bank, QInt(mart.stake))
        /\ mart.bankrupt = 0 /\ mart.k = mart.streak + 1 =>
              RunStartBank = QInt(1000)

\* The worst streak, of three losses or more, at the very start of the
\* trades: the simulation is through it, not bankrupt, and the stake doubled
\* once more is still within the bank.
C27_Witness ==
    /\ spc = "play" /\ mart.bankrupt = 0
    /\ mart.max_streak >= 3 /\ mart.streak = mart.max_streak
    /\ mart.k = mart.streak + 1
    /\ mart.stake = mart.base_bet * 2 ^ mart.max_streak
    /\ ~QLess(mart.bank, QInt(mart.stake))

====
